---- MODULE Spec2Model ----
(***************************************************************************)
(* Conversion pipeline of the pdfconvertor backend.                        *)
(*                                                                         *)
(* Two execution paths are modelled:                                       *)
(*   - the HTTP server (backend/src/server.js): POST /api/convert calls    *)
(*     processFile, which dispatches on the job type to the tiered         *)
(*     conversion functions;                                               *)
(*   - the queue worker (BullMQ processor): the same dispatch over         *)
(*     single-tier conversion functions.                                   *)
(*                                                                         *)
(* A step of the model is one turn of the Node.js event loop: the event    *)
(* that settles an awaited call, followed by all the synchronous code and  *)
(* promise continuations that run until the next await on an external      *)
(* collaborator (cloud service, parser, transcoder, file stream).          *)
(* Requests interleave at these awaits.                                    *)
(*                                                                         *)
(* Specifications:                                                         *)
(*   Spec         requests of every type, default compression level;       *)
(*   FairSpec     Spec, where every pending call settles;                  *)
(*   DownloadSpec Spec and the downloads of the results;                   *)
(*   LevelSpec    compression requests with any compressionLevel;          *)
(*   PoolSpec     requests side by side, retried by the web client and     *)
(*                redelivered by the queue;                                *)
(*   ReconstructSpec  the text extraction functions on parsed documents;   *)
(*   FetchSpec    the web client's fetchWithRetry;                         *)
(*   PageSpec     the web client's page: health check, file and tool       *)
(*                selection, submission;                                   *)
(*   PageFairSpec PageSpec, where health checks settle and the interval    *)
(*                keeps firing.                                            *)
(***************************************************************************)
EXTENDS Integers, Sequences, FiniteSets

\* ------------------------------------------------------------------ bounds
NumJobs == 1
MaxClock == 1
\* times the queue hands one job to a worker
MaxDeliveries == 2

\* text fragments of a document of one page
MaxFragments == 5
\* pages of a document, and text fragments of a document of several pages
MaxPages == 3
MaxDocumentTexts == 2
\* largest retries argument of a fetchWithRetry call
MaxRetries == 6

\* fetchWithRetry = async (url, options = {}, retries = 3)
retries == 3

\* Math.abs(yDiff) > 0.1, coordinates counted in hundredths of a unit
Tolerance == 10

\* the jobs of a behaviour: NumJobs requests of any type (Spec, LevelSpec),
\* and one more where requests of few types run side by side (PoolSpec)
Jobs == 1..(NumJobs + 1)

\* --------------------------------------------------------------- vocabulary
Registered ==
  {"pdf-to-word", "image-to-pdf", "compress-image", "compress-video", "compress-pdf"}

\* the type field of a request is free text: one unregistered value stands
\* for all of them
JobTypes == Registered \cup {"word-to-pdf"}

Modes == {"http", "worker"}

OriginalNames == {"a"}

CredsStates == {"absent", "unparsable", "incomplete", "valid"}

NoPath == <<>>
NoError == <<>>
NoFile == [by |-> 0, what |-> "none", body |-> <<>>]

\* tiers, as the spec names them
Cloud == "CloudTransform"
Local == "LocalTextExtraction"
Diag == "DiagnosticReport"
Transform == "Transform"
RawCopy == "RawCopyFallback"

VARIABLES
  clock,       \* Date.now()
  credentials, \* per job: what the job's getAdobeCredentials() returned
  uploads,     \* the files present in uploads/ (set of paths)
  outputs,     \* the files present in outputs/ (path -> content)
  job,         \* per job: the request (mode, type, originalName, input path, timestamp)
  pc,          \* per job: the await the job is suspended at
  stream,      \* per job: state of the write stream of the cloud download
  err,         \* per job: message of the error handed to createErrorReport
  text,        \* per job: what extractPdfText resolved with
  tierLog,     \* per job: history of tier starts and results
  calls,       \* per job: number of calls made to the cloud service
  outcome,     \* per job: the responses / terminal notifications produced
  fetched,     \* per job: status of the last GET /api/download of its result
  pdfData,     \* what the PDF parser has read of a file: Pages, each a list of Texts
  resolved,    \* what the promise of a text extraction function resolved with
  request,     \* the web client's fetchWithRetry call: loop index, requests, timers
  page         \* the web client's page: the state of Home and its pending calls

\* the state of the server and the worker
serverVars == <<clock, credentials, uploads, outputs, job, pc, stream, err, text, tierLog,
                calls, outcome, fetched>>

\* the state of one text extraction
parserVars == <<pdfData, resolved>>

vars == <<serverVars, parserVars, request, page>>

\* ------------------------------------------------------------------ helpers
\* the file name each conversion function gives its output
OutputName_sameName(fn) ==
  CASE fn = "convertPdfToWord" -> "converted.docx"
    [] fn = "convertPdfToWordFallback" -> "converted.docx"
    [] fn = "createErrorReport" -> "error_report.docx"
    [] fn = "convertImageToPdf" -> "converted.pdf"
    [] fn = "compressImage" -> "compressed.jpg"
    [] fn = "compressVideo" -> "compressed.mp4"
    [] fn = "compressVideoFallback" -> "video_copy.mp4"
    [] OTHER -> "compressed.pdf"

OutputName(fn) ==
  CASE fn = "convertPdfToWord" -> "converted.docx"
    [] fn = "convertPdfToWordFallback" -> "fallback.docx"
    [] fn = "createErrorReport" -> "error_report.docx"
    [] fn = "convertImageToPdf" -> "converted.pdf"
    [] fn = "compressImage" -> "compressed.jpg"
    [] fn = "compressVideo" -> "compressed.mp4"
    [] fn = "compressVideoFallback" -> "video_copy.mp4"
    [] OTHER -> "compressed.pdf"

\* `outputs/${timestamp}_<name>`
OutPath(j, fn) == <<job[j].ts, OutputName(fn)>>

\* multer: `${Date.now()}_${file.originalname}` under uploads/
storage(now, originalname) == <<now, originalname>>

\* fs.existsSync on outputs/ and uploads/
ExistsOut(p) == p \in DOMAIN outputs
ExistsIn(p) == p \in uploads

\* the files of outs after a write of c to p ended
WrittenTo(outs, p, c) == [q \in (DOMAIN outs) \cup {p} |-> IF q = p THEN c ELSE outs[q]]
Written(p, c) == WrittenTo(outputs, p, c)

Content(j, what, body) == [by |-> j, what |-> what, body |-> body]

\* if (fs.existsSync(file.path)) fs.unlinkSync(file.path)
Unlinked(j) == uploads \ {job[j].input}

Ev(tier, what) == <<tier, what>>

\* new Error(`<prefix>: ${error.message}`)
Wrap(prefix, msg) == <<prefix>> \o msg

\* pdfservices-api-credentials.json -> credentials or null
getAdobeCredentials(file) ==
  CASE file = "absent" -> "null"        \* !fs.existsSync(credentialsPath)
    [] file = "unparsable" -> "null"    \* JSON.parse throws, caught
    [] file = "incomplete" -> "null"    \* structure validation fails
    [] OTHER -> "credentials"

\* if (!credentials) return false
NoCredentials_never(c) == FALSE

NoCredentials(c) == c = "null"

\* details.addText(`Error: ${error.message}`)
ReportBody_noMessage(e) == <<"Troubleshooting Steps">>

ReportBody(e) == e

\* no settings resolved (yet)
NoSettings == [description |-> "none"]

\* ------------------------------------------------------ compression levels
\* the compressionLevel field of a request is free text: the three levels
\* of the interface, the name of a property every JavaScript object
\* inherits, a word no table knows, and the fourth entry of the tables
Levels == {"low", "medium", "high", "constructor", "bogus", "custom"}

\* names every object literal inherits from Object.prototype
ObjectPrototype == {"constructor", "toString", "valueOf", "hasOwnProperty"}

\* the value undefined
Undefined == [undefined |-> TRUE]

\* compressionSettings of compressImage
imageCompressionSettings ==
  [low |-> [quality |-> 50, maxWidth |-> 1280, maxHeight |-> 720],
   medium |-> [quality |-> 75, maxWidth |-> 1920, maxHeight |-> 1080],
   high |-> [quality |-> 90, maxWidth |-> 2560, maxHeight |-> 1440],
   custom |-> [quality |-> 60, maxWidth |-> 1600, maxHeight |-> 900]]

\* compressionSettings of compressVideo
videoCompressionSettings ==
  [low |-> [resolution |-> "854x480", videoBitrate |-> "500k", audioBitrate |-> "96k",
            crf |-> 28, preset |-> "fast"],
   medium |-> [resolution |-> "1280x720", videoBitrate |-> "1000k", audioBitrate |-> "128k",
               crf |-> 23, preset |-> "medium"],
   high |-> [resolution |-> "1920x1080", videoBitrate |-> "2000k", audioBitrate |-> "192k",
             crf |-> 20, preset |-> "slow"],
   custom |-> [resolution |-> "1024x576", videoBitrate |-> "750k", audioBitrate |-> "112k",
               crf |-> 25, preset |-> "medium"]]

\* adobeCompressionMap of compressPdfAdobe
adobeCompressionMap ==
  [low |-> [compressionLevel |-> "LOW"],
   medium |-> [compressionLevel |-> "MEDIUM"],
   high |-> [compressionLevel |-> "HIGH"]]

\* table[key] in JavaScript: an own property, else a property inherited
\* from Object.prototype (a function, to which the tables give no quality,
\* size or bitrate), else undefined
Get(table, key) ==
  IF key \in DOMAIN table THEN table[key]
  ELSE IF key \in ObjectPrototype THEN [inherited |-> key]
  ELSE Undefined

\* a || b for a an object, a function or undefined
Or(a, b) == IF a = Undefined THEN b ELSE a

\* const settings = compressionSettings[compressionLevel] || compressionSettings.medium
ResolveSettings(table, compressionLevel) == Or(Get(table, compressionLevel), table.medium)

\* the settings a conversion function of the server resolves when it starts
ServerSettings(type, compressionLevel) ==
  CASE type = "compress-image" -> ResolveSettings(imageCompressionSettings, compressionLevel)
    [] type = "compress-video" -> ResolveSettings(videoCompressionSettings, compressionLevel)
    [] OTHER -> NoSettings

\* the settings written into the worker's conversion functions
WorkerSettings(type) ==
  CASE type = "compress-image" -> [quality |-> 80, maxWidth |-> 1920, maxHeight |-> 1080]
    [] type = "compress-video" ->
         [resolution |-> "1280x720", videoBitrate |-> "1000k", audioBitrate |-> "128k"]
    [] OTHER -> NoSettings

IdleJob == [mode |-> "none", type |-> "none", name |-> "none", input |-> NoPath, ts |-> 0,
            level |-> "medium", settings |-> NoSettings, attempt |-> 0, used |-> {}]

Init ==
  /\ clock = 0
  /\ credentials = [j \in Jobs |-> "unread"]
  /\ uploads = {}
  /\ outputs = <<>>
  /\ job = [j \in Jobs |-> IdleJob]
  /\ pc = [j \in Jobs |-> "idle"]
  /\ stream = [j \in Jobs |-> "none"]
  /\ err = [j \in Jobs |-> NoError]
  /\ text = [j \in Jobs |-> "none"]
  /\ tierLog = [j \in Jobs |-> <<>>]
  /\ calls = [j \in Jobs |-> 0]
  /\ outcome = [j \in Jobs |-> <<>>]
  /\ fetched = [j \in Jobs |-> "none"]
  /\ pdfData = [Pages |-> <<>>]
  /\ resolved = [by |-> "nobody", type |-> "undefined", value |-> <<>>, pass |-> 0]
  /\ request = [pc |-> "idle", url |-> "none", retries |-> 0, i |-> 0, sent |-> <<>>,
                timers |-> <<>>, result |-> <<>>]
  \* the useState(...) initial values of Home, before its effects have run;
  \* backend is the health of the server the page talks to
  /\ page = [mounted |-> FALSE, backend |-> "down", file |-> [ext |-> "null", large |-> FALSE],
             type |-> "pdf-to-word", loading |-> FALSE, result |-> <<>>,
             backendStatus |-> "checking", check |-> 0, closure |-> "none",
             submit |-> "idle", toast |-> "none"]

\* ------------------------------------------------------------- terminations
\* The job ends with a result: processFile (server) or the worker's
\* conversion function removes the input, then the response / completed
\* notification names the output path.  outs are the files of outputs/ at
\* that moment; artifact is what the named file holds then.
Return_unwritten(j, path, log, outs) ==
  /\ pc' = [pc EXCEPT ![j] = "done"]
  /\ tierLog' = [tierLog EXCEPT ![j] = log]
  /\ uploads' = Unlinked(j)
  /\ outputs' = outputs
  /\ outcome' = [outcome EXCEPT ![j] =
       Append(@, [ok |-> TRUE, path |-> path, error |-> NoError,
                  artifact |-> IF path \in DOMAIN outputs THEN outputs[path] ELSE NoFile])]

Return(j, path, log, outs) ==
  /\ pc' = [pc EXCEPT ![j] = "done"]
  /\ tierLog' = [tierLog EXCEPT ![j] = log]
  /\ uploads' = Unlinked(j)
  /\ outputs' = outs
  /\ outcome' = [outcome EXCEPT ![j] =
       Append(@, [ok |-> TRUE, path |-> path, error |-> NoError,
                  artifact |-> IF path \in DOMAIN outs THEN outs[path] ELSE NoFile])]

\* The job ends with an error thrown out of the dispatcher.  The HTTP
\* handler's catch removes the input and answers 500; the worker's
\* conversion functions only log and rethrow.
Throw_resolves(j, e, log) ==
  /\ pc' = [pc EXCEPT ![j] = "done"]
  /\ tierLog' = [tierLog EXCEPT ![j] = log]
  /\ uploads' = IF job[j].mode = "http" THEN Unlinked(j) ELSE uploads
  /\ outcome' = [outcome EXCEPT ![j] =
       Append(@, [ok |-> TRUE, path |-> NoPath, error |-> e, artifact |-> NoFile])]

Throw(j, e, log) ==
  /\ pc' = [pc EXCEPT ![j] = "done"]
  /\ tierLog' = [tierLog EXCEPT ![j] = log]
  /\ uploads' = IF job[j].mode = "http" THEN Unlinked(j) ELSE uploads
  /\ outcome' = [outcome EXCEPT ![j] =
       Append(@, [ok |-> FALSE, path |-> NoPath, error |-> e, artifact |-> NoFile])]

\* The job suspends at the next await.
Await(j, label, log) ==
  /\ pc' = [pc EXCEPT ![j] = label]
  /\ tierLog' = [tierLog EXCEPT ![j] = log]
  /\ UNCHANGED <<uploads, outcome>>

\* ------------------------------------------------------------------ actions
\* Date.now(): the clock read is the previous reading or a later one
Now(now) == now \in clock..(IF clock < MaxClock THEN clock + 1 ELSE clock)

\* job.data.filePath of a queued job: the producer of the queue's jobs is
\* not part of the repository; each job is given a file of its own
QueuedPath(j) == <<j, "queued">>

\* A request arrives with a file: multer stores it under uploads/ (server);
\* a job whose file is already in uploads/ is added to the queue (worker).
\* modes, types and levels are the requests considered; a new request is
\* given the next job number.
Submit(j, modes, types, levels) ==
  /\ pc[j] = "idle"
  /\ \A k \in 1..(j - 1) : pc[k] # "idle"
  /\ \E m \in modes, t \in types, l \in levels, n \in OriginalNames, now \in 0..MaxClock :
       LET path == IF m = "http" THEN storage(now, n) ELSE QueuedPath(j) IN
       /\ Now(now)
       /\ clock' = now
       /\ job' = [job EXCEPT ![j] = [mode |-> m, type |-> t, name |-> n, input |-> path,
                                     ts |-> 0, level |-> l, settings |-> NoSettings,
                                     attempt |-> 1, used |-> {}]]
       /\ uploads' = uploads \cup {path}
       /\ pc' = [pc EXCEPT ![j] = IF m = "http" THEN "accepted" ELSE "queued"]
  /\ UNCHANGED <<credentials, outputs, stream, err, text, tierLog, calls, outcome, fetched, parserVars, request, page>>

\* requests of every type, with the default compressionLevel
Upload(j) == j <= NumJobs /\ Submit(j, Modes, JobTypes, {"medium"})

\* ------------------------------------------------- server.js: pdf-to-word
\* convertPdfToWordFallback up to its first await: extractPdfText(file.path)
StartLocal(j, log) ==
  Await(j, "extractPdfText", log \o <<Ev(Local, "start")>>)

\* convertPdfToWord up to its first await.  convertPdfToWordAdobe returns
\* false at once without credentials; otherwise it awaits pdfServices.upload.
convertPdfToWord(j) ==
  \E file \in CredsStates :
    /\ credentials' = [credentials EXCEPT ![j] = getAdobeCredentials(file)]
    /\ IF NoCredentials(getAdobeCredentials(file))
         THEN /\ StartLocal(j, <<Ev(Cloud, "start"), Ev(Cloud, "fail")>>)
              /\ UNCHANGED <<outputs, stream, err, text, calls>>
         ELSE /\ Await(j, "upload", <<Ev(Cloud, "start")>>)
              /\ calls' = [calls EXCEPT ![j] = @ + 1]
              /\ UNCHANGED <<outputs, stream, err, text>>

NextCall(stage) ==
  CASE stage = "upload" -> "submit"
    [] stage = "submit" -> "getJobResult"
    [] stage = "getJobResult" -> "getContent"
    [] OTHER -> "download"

AdobeStages == {"upload", "submit", "getJobResult", "getContent"}

\* One awaited call of convertPdfToWordAdobe settles.  A thrown SDKError,
\* ServiceUsageError or other error is caught and the function returns
\* false; after getContent the result is piped into the output file.
convertPdfToWordAdobe(j) ==
  /\ job[j].type = "pdf-to-word"
  /\ pc[j] \in AdobeStages
  /\ \E ok \in BOOLEAN :
       /\ (ok /\ pc[j] = "upload") => ExistsIn(job[j].input)
       /\ IF ok
            THEN /\ Await(j, NextCall(pc[j]), tierLog[j])
                 /\ calls' = [calls EXCEPT ![j] = IF pc[j] = "getContent" THEN @ ELSE @ + 1]
                 /\ stream' = [stream EXCEPT ![j] = IF pc[j] = "getContent" THEN "pending" ELSE @]
            ELSE /\ StartLocal(j, tierLog[j] \o <<Ev(Cloud, "fail")>>)
                 /\ UNCHANGED <<calls, stream>>
  /\ UNCHANGED <<fetched, parserVars, request, page, clock, credentials, outputs, job, err, text>>

\* createErrorReport(file, timestamp, error) up to its await on the write
CallErrorReport(j, e, log, label) ==
  /\ Await(j, label, log \o <<Ev(Diag, "start")>>)
  /\ err' = [err EXCEPT ![j] = e]

\* the 30 second timer set next to the stream handlers fires while the
\* download promise is still pending
DownloadTimeout(j) ==
  /\ job[j].type = "pdf-to-word"
  /\ pc[j] = "download"
  /\ IF ExistsOut(OutPath(j, "convertPdfToWord"))
       THEN Return(j, OutPath(j, "convertPdfToWord"),
                   tierLog[j] \o <<Ev(Cloud, "timeout"), Ev(Cloud, "ok")>>, outputs)
       ELSE /\ StartLocal(j, tierLog[j] \o <<Ev(Cloud, "timeout"), Ev(Cloud, "fail")>>)
            /\ UNCHANGED outputs
  /\ UNCHANGED <<fetched, parserVars, request, page, clock, credentials, job, stream, err, text, calls>>

ParserResults == {"text", "No text content found in PDF.",
                  "Unable to extract text from this PDF file.",
                  "Error extracting text from PDF."}

\* extractPdfText settles: every parser event resolves the promise with a
\* string; then the document is built and its write is awaited
extractPdfText(j) ==
  /\ pc[j] = "extractPdfText"
  /\ \E r \in ParserResults :
       /\ ~ExistsIn(job[j].input) => r = "Unable to extract text from this PDF file."
       /\ text' = [text EXCEPT ![j] = r]
  /\ Await(j, "fallback_write", tierLog[j])
  /\ UNCHANGED <<fetched, parserVars, request, page, clock, credentials, outputs, job, stream, err, calls>>

\* the write of outputs/<ts>_fallback.docx settles
convertPdfToWordFallback(j) ==
  /\ pc[j] = "fallback_write"
  /\ \E ok \in BOOLEAN :
       IF ok
         THEN /\ Return(j, OutPath(j, "convertPdfToWordFallback"),
                        tierLog[j] \o <<Ev(Local, "ok")>>,
                        Written(OutPath(j, "convertPdfToWordFallback"),
                                Content(j, "text-docx", <<text[j]>>)))
              /\ UNCHANGED err
         ELSE /\ CallErrorReport(j, <<"fallback write error">>,
                                 tierLog[j] \o <<Ev(Local, "fail")>>, "report_inner")
              /\ UNCHANGED outputs
  /\ UNCHANGED <<fetched, parserVars, request, page, clock, credentials, job, stream, text, calls>>

\* the write of outputs/<ts>_error_report.docx settles.  A failed write
\* throws `Conversion failed: <message>`: out of convertPdfToWordFallback's
\* catch it lands in convertPdfToWord's catch, which calls createErrorReport
\* again; out of convertPdfToWord's catch it leaves processFile.
createErrorReport(j) ==
  /\ pc[j] \in {"report_inner", "report_outer"}
  /\ \E ok \in BOOLEAN :
       IF ok
         THEN /\ Return(j, OutPath(j, "createErrorReport"),
                        tierLog[j] \o <<Ev(Diag, "ok")>>,
                        Written(OutPath(j, "createErrorReport"),
                                Content(j, "error-report", ReportBody(err[j]))))
              /\ UNCHANGED err
         ELSE /\ IF pc[j] = "report_inner"
                   THEN CallErrorReport(j, Wrap("Conversion failed", err[j]),
                                        tierLog[j] \o <<Ev(Diag, "fail")>>, "report_outer")
                   ELSE /\ Throw(j, Wrap("Conversion failed", err[j]),
                                 tierLog[j] \o <<Ev(Diag, "fail")>>)
                        /\ UNCHANGED err
              /\ UNCHANGED outputs
  /\ UNCHANGED <<fetched, parserVars, request, page, clock, credentials, job, stream, text, calls>>

\* ---------------------------------------------- server.js: cloud download
\* the file the cloud result of job j is piped into
StreamPath(j) ==
  OutPath(j, IF job[j].type = "pdf-to-word" THEN "convertPdfToWord" ELSE "compressPdf")

\* the write stream of the cloud result opens its file
StreamOpen(j) ==
  /\ stream[j] = "pending"
  /\ stream' = [stream EXCEPT ![j] = "open"]
  /\ outputs' = Written(StreamPath(j), Content(j, "cloud-partial", <<>>))
  /\ UNCHANGED <<fetched, parserVars, request, page, clock, credentials, uploads, job, pc, err, text, tierLog, calls, outcome>>

\* compressPdf after compressPdfAdobe returned false: the call of
\* compressPdfFallback, a name no file defines, throws a ReferenceError,
\* which compressPdf's catch wraps
CallCompressPdfFallback_returns(j, log) ==
  Return(j, OutPath(j, "compressPdf"),
         log \o <<Ev(RawCopy, "start"), Ev(RawCopy, "ok")>>, outputs)

CallCompressPdfFallback(j, log) ==
  Throw(j, Wrap("PDF compression failed", <<"compressPdfFallback is not defined">>), log)

\* outputStream 'finish'
StreamFinish(j) ==
  /\ stream[j] = "open"
  /\ stream' = [stream EXCEPT ![j] = "finished"]
  /\ \E size \in {0, 1} :
       LET outs == Written(StreamPath(j),
                           Content(j, IF size > 0 THEN "cloud-result" ELSE "cloud-empty", <<>>))
       IN IF pc[j] # "download"
            THEN /\ outputs' = outs
                 /\ UNCHANGED <<uploads, pc, tierLog, outcome>>
            ELSE IF job[j].type = "pdf-to-word"
              THEN IF size > 0
                     THEN Return(j, StreamPath(j), tierLog[j] \o <<Ev(Cloud, "ok")>>, outs)
                     ELSE /\ StartLocal(j, tierLog[j] \o <<Ev(Cloud, "fail")>>)
                          /\ outputs' = outs
              ELSE Return(j, StreamPath(j), tierLog[j] \o <<Ev(Cloud, "ok")>>, outs)
  /\ UNCHANGED <<fetched, parserVars, request, page, clock, credentials, job, err, text, calls>>

\* outputStream 'error': convertPdfToWordAdobe rejects, and the rejection
\* of the returned promise lands in convertPdfToWord's catch;
\* compressPdfAdobe resolves false
StreamError(j) ==
  /\ stream[j] \in {"pending", "open"}
  /\ stream' = [stream EXCEPT ![j] = "errored"]
  /\ IF pc[j] # "download"
       THEN UNCHANGED <<uploads, pc, tierLog, outcome, err>>
       ELSE IF job[j].type = "pdf-to-word"
         THEN CallErrorReport(j, <<"stream write error">>,
                              tierLog[j] \o <<Ev(Cloud, "fail")>>, "report_outer")
         ELSE /\ CallCompressPdfFallback(j, tierLog[j] \o <<Ev(Cloud, "fail")>>)
              /\ UNCHANGED err
  /\ UNCHANGED <<fetched, parserVars, request, page, clock, credentials, outputs, job, text, calls>>

\* streamAsset.readStream emits 'error' (the connection of the download
\* breaks): pipe() unpipes the source and leaves the write stream open, so
\* it emits neither 'finish' nor 'error'
ReadStreamError(j) ==
  /\ stream[j] \in {"pending", "open"}
  /\ stream' = [stream EXCEPT ![j] = "unpiped"]
  /\ UNCHANGED <<fetched, parserVars, request, page, clock, credentials, uploads, outputs, job, pc, err, text, tierLog,
                 calls, outcome>>

\* ------------------------------------------------ server.js: compress-pdf
\* compressPdf up to its first await: fs.statSync(file.path), then
\* compressPdfAdobe, which returns false at once without credentials
compressPdf(j) ==
  IF ~ExistsIn(job[j].input)
    THEN /\ Throw(j, Wrap("PDF compression failed", <<"ENOENT">>), <<>>)
         /\ UNCHANGED <<credentials, outputs, stream, err, text, calls>>
    ELSE \E file \in CredsStates :
      /\ credentials' = [credentials EXCEPT ![j] = getAdobeCredentials(file)]
      /\ IF NoCredentials(getAdobeCredentials(file))
           THEN /\ CallCompressPdfFallback(j, <<Ev(Cloud, "start"), Ev(Cloud, "fail")>>)
                /\ UNCHANGED <<outputs, stream, err, text, calls>>
           ELSE /\ Await(j, "upload", <<Ev(Cloud, "start")>>)
                /\ calls' = [calls EXCEPT ![j] = @ + 1]
                /\ UNCHANGED <<outputs, stream, err, text>>

\* one awaited call of compressPdfAdobe settles; any throw returns false
compressPdfAdobe(j) ==
  /\ job[j].type = "compress-pdf"
  /\ pc[j] \in AdobeStages
  /\ \E ok \in BOOLEAN :
       /\ (ok /\ pc[j] = "upload") => ExistsIn(job[j].input)
       /\ job' = IF ok /\ pc[j] = "upload"
                   THEN [job EXCEPT ![j].settings =
                           ResolveSettings(adobeCompressionMap, job[j].level)]
                   ELSE job
       /\ IF ok
            THEN /\ Await(j, NextCall(pc[j]), tierLog[j])
                 /\ calls' = [calls EXCEPT ![j] = IF pc[j] = "getContent" THEN @ ELSE @ + 1]
                 /\ stream' = [stream EXCEPT ![j] = IF pc[j] = "getContent" THEN "pending" ELSE @]
            ELSE /\ CallCompressPdfFallback(j, tierLog[j] \o <<Ev(Cloud, "fail")>>)
                 /\ UNCHANGED <<calls, stream>>
  /\ UNCHANGED <<fetched, parserVars, request, page, clock, credentials, outputs, err, text>>

\* ---------------------------------------------- server.js: compress-video
\* compressVideo up to its first await: fs.statSync(file.path), then
\* checkFFmpegAvailability
compressVideo(j) ==
  /\ IF ~ExistsIn(job[j].input)
       THEN Throw(j, Wrap("Video compression failed", <<"ENOENT">>), <<>>)
       ELSE Await(j, "checkFFmpeg", <<Ev(Transform, "start")>>)
  /\ UNCHANGED <<credentials, outputs, stream, err, text, calls>>

\* catch (ffmpegError): fs.copyFileSync(file.path, outputs/<ts>_video_copy.mp4).
\* A failed copy is wrapped by compressVideoFallback and again by compressVideo.
\* outs are the files of outputs/ the transcoder left.
compressVideoFallback_wrongSource(j, log, outs) ==
  \E ok \in BOOLEAN :
    /\ ok => ExistsIn(job[j].input)
    /\ IF ok
         THEN Return(j, OutPath(j, "compressVideoFallback"),
                     log \o <<Ev(RawCopy, "start"), Ev(RawCopy, "ok")>>,
                     WrittenTo(outs, OutPath(j, "compressVideoFallback"),
                               Content(j, "copy", <<OutPath(j, "compressVideo")>>)))
         ELSE /\ outputs' = outs
              /\ Throw(j, Wrap("Video compression failed",
                               Wrap("Video fallback processing failed", <<"copy error">>)),
                       log \o <<Ev(RawCopy, "start"), Ev(RawCopy, "fail")>>)

compressVideoFallback(j, log, outs) ==
  \E ok \in BOOLEAN :
    /\ ok => ExistsIn(job[j].input)
    /\ IF ok
         THEN Return(j, OutPath(j, "compressVideoFallback"),
                     log \o <<Ev(RawCopy, "start"), Ev(RawCopy, "ok")>>,
                     WrittenTo(outs, OutPath(j, "compressVideoFallback"),
                               Content(j, "copy", <<job[j].input>>)))
         ELSE /\ outputs' = outs
              /\ Throw(j, Wrap("Video compression failed",
                               Wrap("Video fallback processing failed", <<"copy error">>)),
                       log \o <<Ev(RawCopy, "start"), Ev(RawCopy, "fail")>>)

\* ffmpeg.getAvailableFormats calls back
checkFFmpegAvailability(j) ==
  /\ pc[j] = "checkFFmpeg"
  /\ \E available \in BOOLEAN :
       IF available
         THEN /\ Await(j, "ffmpeg", tierLog[j])
              /\ UNCHANGED outputs
         ELSE compressVideoFallback(j, tierLog[j] \o <<Ev(Transform, "fail")>>, outputs)
  /\ UNCHANGED <<fetched, parserVars, request, page, clock, credentials, job, stream, err, text, calls>>

\* the ffmpeg command ends or errors; an errored run may leave a partial
\* outputs/<ts>_compressed.mp4 behind
FFmpegSettles(j) ==
  /\ pc[j] = "ffmpeg"
  /\ \E ev \in {"end", "error", "error-partial"} :
       /\ ev = "end" => ExistsIn(job[j].input)
       /\ CASE ev = "end" ->
                 Return(j, OutPath(j, "compressVideo"), tierLog[j] \o <<Ev(Transform, "ok")>>,
                        Written(OutPath(j, "compressVideo"), Content(j, "h264", <<>>)))
            [] ev = "error" ->
                 compressVideoFallback(j, tierLog[j] \o <<Ev(Transform, "fail")>>, outputs)
            [] OTHER ->
                 compressVideoFallback(j, tierLog[j] \o <<Ev(Transform, "fail")>>,
                   Written(OutPath(j, "compressVideo"), Content(j, "h264-partial", <<>>)))
  /\ UNCHANGED <<fetched, parserVars, request, page, clock, credentials, job, stream, err, text, calls>>

\* ------------------------------------- server.js: image-to-pdf, compress-image
\* convertImageToPdf up to its first await: sharp(file.path).jpeg().toBuffer()
convertImageToPdf(j) ==
  /\ Await(j, "toBuffer", <<Ev(Transform, "start")>>)
  /\ UNCHANGED <<credentials, outputs, stream, err, text, calls>>

\* the image pipeline settles: toBuffer, PDFDocument.create, embedJpg, save,
\* then fs.writeFileSync; a failure anywhere is rethrown wrapped
ImageToPdfSettles(j) ==
  /\ pc[j] = "toBuffer"
  /\ \E r \in {"ok", "sharp error", "embed error", "write error"} :
       /\ r = "ok" => ExistsIn(job[j].input)
       /\ IF r = "ok"
            THEN Return(j, OutPath(j, "convertImageToPdf"), tierLog[j] \o <<Ev(Transform, "ok")>>,
                        Written(OutPath(j, "convertImageToPdf"), Content(j, "image-pdf", <<>>)))
            ELSE /\ Throw(j, Wrap("Image to PDF conversion failed", <<r>>),
                          tierLog[j] \o <<Ev(Transform, "fail")>>)
                 /\ UNCHANGED outputs
  /\ UNCHANGED <<fetched, parserVars, request, page, clock, credentials, job, stream, err, text, calls>>

\* compressImage up to its first await: fs.statSync(file.path), then
\* sharp(file.path)...toFile(outputPath)
compressImage(j) ==
  /\ IF ~ExistsIn(job[j].input)
       THEN Throw(j, Wrap("Image compression failed", <<"ENOENT">>), <<>>)
       ELSE Await(j, "toFile", <<Ev(Transform, "start")>>)
  /\ UNCHANGED <<credentials, outputs, stream, err, text, calls>>

\* sharp's toFile settles
CompressImageSettles(j) ==
  /\ pc[j] = "toFile"
  /\ \E ok \in BOOLEAN :
       /\ ok => ExistsIn(job[j].input)
       /\ IF ok
            THEN Return(j, OutPath(j, "compressImage"), tierLog[j] \o <<Ev(Transform, "ok")>>,
                        Written(OutPath(j, "compressImage"), Content(j, "jpeg", <<>>)))
            ELSE /\ Throw(j, Wrap("Image compression failed", <<"sharp error">>),
                          tierLog[j] \o <<Ev(Transform, "fail")>>)
                 /\ UNCHANGED outputs
  /\ UNCHANGED <<fetched, parserVars, request, page, clock, credentials, job, stream, err, text, calls>>

\* ------------------------------------------------------ server.js: dispatch
\* the switch of processFile (and of the worker's processor): the case taken
switchType_fallThrough(type) == IF type \in Registered THEN type ELSE "compress-pdf"

switchType(type) == IF type \in Registered THEN type ELSE "default"

\* POST /api/convert with a file: processFile reads the clock and dispatches
processFile(j) ==
  /\ pc[j] = "accepted"
  /\ \E now \in 0..MaxClock :
       /\ Now(now)
       /\ clock' = now
       /\ job' = [job EXCEPT ![j].ts = now,
                             ![j].settings = ServerSettings(job[j].type, job[j].level)]
  /\ UNCHANGED <<fetched, parserVars, request, page>>
  /\ LET case == switchType(job[j].type) IN
       CASE case = "pdf-to-word" -> convertPdfToWord(j)
         [] case = "image-to-pdf" -> convertImageToPdf(j)
         [] case = "compress-image" -> compressImage(j)
         [] case = "compress-video" -> compressVideo(j)
         [] case = "compress-pdf" -> compressPdf(j)
         [] OTHER -> /\ Throw(j, <<"Unknown conversion type", job[j].type>>, <<>>)
                     /\ UNCHANGED <<credentials, outputs, stream, err, text, calls>>

\* ------------------------------------------------------------ queue worker
\* output name of the worker's conversion function for a job type
WorkerSuffix(type) ==
  CASE type = "pdf-to-word" -> "converted.docx"
    [] type = "image-to-pdf" -> "converted.pdf"
    [] type = "compress-image" -> "compressed.jpg"
    [] type = "compress-video" -> "compressed.mp4"
    [] OTHER -> "compressed.pdf"

\* a Worker created without a concurrency option runs one processor at a time
WorkerBusy_never == FALSE

WorkerBusy == \E k \in Jobs : job[k].mode = "worker" /\ pc[k] = "worker_convert"

\* the processor passed to new Worker: dispatch on job.data.type; each
\* conversion function reads the clock for its output name and awaits its
\* transform
WorkerProcessor(j) ==
  /\ pc[j] = "queued"
  /\ ~WorkerBusy
  /\ \E now \in 0..MaxClock :
       /\ Now(now)
       /\ clock' = now
       /\ job' = [job EXCEPT ![j].ts = now, ![j].settings = WorkerSettings(job[j].type)]
  /\ UNCHANGED <<fetched, parserVars, request, page>>
  /\ IF switchType(job[j].type) = "default"
       THEN Throw(j, <<"Unknown job type", job[j].type>>, <<>>)
       ELSE Await(j, "worker_convert", <<Ev(Transform, "start")>>)
  /\ UNCHANGED <<credentials, outputs, stream, err, text, calls>>

\* the worker's conversion function settles: on success it has written its
\* output and removes the input; on an error it logs and rethrows
WorkerSettles(j) ==
  /\ pc[j] = "worker_convert"
  /\ \E ok \in BOOLEAN :
       /\ (ok /\ job[j].type # "pdf-to-word") => ExistsIn(job[j].input)
       /\ IF ok
            THEN Return(j, <<job[j].ts, WorkerSuffix(job[j].type)>>,
                        tierLog[j] \o <<Ev(Transform, "ok")>>,
                        Written(<<job[j].ts, WorkerSuffix(job[j].type)>>,
                                Content(j, IF job[j].type = "compress-pdf" THEN "copy"
                                           ELSE "worker-result",
                                        IF job[j].type = "compress-pdf"
                                          THEN <<job[j].input>> ELSE <<>>)))
            ELSE /\ Throw(j, <<"transform error">>, tierLog[j] \o <<Ev(Transform, "fail")>>)
                 /\ UNCHANGED outputs
  /\ UNCHANGED <<fetched, parserVars, request, page, clock, credentials, job, stream, err, text, calls>>

\* ------------------------------------------------------ server.js: download
\* fs.existsSync(outputs/<filename>) ? res.download : 404
download(filename) == IF ExistsOut(filename) THEN "200" ELSE "404"

\* GET /api/download/:filename, for the filename of a success response
Download(j) ==
  /\ job[j].mode = "http"
  /\ pc[j] = "done"
  /\ outcome[j] # <<>>
  /\ outcome[j][Len(outcome[j])].ok
  /\ fetched' = [fetched EXCEPT ![j] = download(outcome[j][Len(outcome[j])].path)]
  /\ UNCHANGED <<clock, credentials, uploads, outputs, job, pc, stream, err, text, tierLog,
                 calls, outcome, parserVars, request, page>>

\* -------------------------------------------------------- server.js: status
\* GET /api/status/:filename: fs.existsSync(outputs/<filename>) ? 'completed'
\* : 'processing'
status(filename) == IF ExistsOut(filename) THEN "completed" ELSE "processing"

\* ------------------------------------------------------------ specification
\* the steps of job j that the server, the worker and their collaborators take
Step(j) ==
  \/ processFile(j)
  \/ convertPdfToWordAdobe(j)
  \/ StreamOpen(j)
  \/ StreamFinish(j)
  \/ StreamError(j)
  \/ ReadStreamError(j)
  \/ DownloadTimeout(j)
  \/ extractPdfText(j)
  \/ convertPdfToWordFallback(j)
  \/ createErrorReport(j)
  \/ compressPdfAdobe(j)
  \/ checkFFmpegAvailability(j)
  \/ FFmpegSettles(j)
  \/ ImageToPdfSettles(j)
  \/ CompressImageSettles(j)
  \/ WorkerProcessor(j)
  \/ WorkerSettles(j)

Next ==
  \/ \E j \in Jobs : Upload(j)
  \/ \E j \in Jobs : ReadStreamError(j)
  \/ \E j \in Jobs : processFile(j)
  \/ \E j \in Jobs : convertPdfToWordAdobe(j)
  \/ \E j \in Jobs : StreamOpen(j)
  \/ \E j \in Jobs : StreamFinish(j)
  \/ \E j \in Jobs : StreamError(j)
  \/ \E j \in Jobs : DownloadTimeout(j)
  \/ \E j \in Jobs : extractPdfText(j)
  \/ \E j \in Jobs : convertPdfToWordFallback(j)
  \/ \E j \in Jobs : createErrorReport(j)
  \/ \E j \in Jobs : compressPdfAdobe(j)
  \/ \E j \in Jobs : checkFFmpegAvailability(j)
  \/ \E j \in Jobs : FFmpegSettles(j)
  \/ \E j \in Jobs : ImageToPdfSettles(j)
  \/ \E j \in Jobs : CompressImageSettles(j)
  \/ \E j \in Jobs : WorkerProcessor(j)
  \/ \E j \in Jobs : WorkerSettles(j)

Spec == Init /\ [][Next]_vars

\* every call a job waits on settles, every timer set fires, and the worker
\* takes a queued job when it is free
Fairness == \A j \in Jobs : WF_vars(Step(j))

FairSpec == Spec /\ Fairness

\* the requests, and the downloads of their results
NextDownload ==
  \/ Next
  \/ \E j \in Jobs : Download(j)

DownloadSpec == Init /\ [][NextDownload]_vars

TypeOK ==
  /\ clock \in 0..MaxClock
  /\ \A j \in Jobs : Len(outcome[j]) <= job[j].attempt

\* ------------------------------------------- compression requests, any level
CompressTypes == {"compress-image", "compress-video", "compress-pdf"}

\* requests for a compression, with any text as compressionLevel
SubmitLevel(j) == j <= NumJobs /\ Submit(j, Modes, CompressTypes, Levels)

NextLevel ==
  \/ \E j \in Jobs : SubmitLevel(j)
  \/ \E j \in Jobs : processFile(j)
  \/ \E j \in Jobs : compressPdfAdobe(j)
  \/ \E j \in Jobs : StreamOpen(j)
  \/ \E j \in Jobs : StreamFinish(j)
  \/ \E j \in Jobs : StreamError(j)
  \/ \E j \in Jobs : ReadStreamError(j)
  \/ \E j \in Jobs : checkFFmpegAvailability(j)
  \/ \E j \in Jobs : FFmpegSettles(j)
  \/ \E j \in Jobs : CompressImageSettles(j)
  \/ \E j \in Jobs : WorkerProcessor(j)
  \/ \E j \in Jobs : WorkerSettles(j)

LevelSpec == Init /\ [][NextLevel]_vars

\* ------------------------------------- requests side by side, retried, redelivered
PoolTypes == {"compress-image", "word-to-pdf"}

SubmitPool(j) == Submit(j, Modes, PoolTypes, {"medium"})

\* fetchWithRetry of the web client: a response that is not ok is thrown
\* and caught, and unless this was the last of the attempts the same
\* request is sent again after a delay of a second or more; multer stores
\* the file again
Retry(j) ==
  /\ job[j].mode = "http"
  /\ pc[j] = "done"
  /\ ~outcome[j][Len(outcome[j])].ok
  /\ job[j].attempt < retries
  /\ clock < MaxClock
  /\ clock' = clock + 1
  /\ job' = [job EXCEPT ![j].attempt = @ + 1, ![j].input = storage(clock + 1, job[j].name),
                        ![j].ts = 0, ![j].settings = NoSettings]
  /\ uploads' = uploads \cup {storage(clock + 1, job[j].name)}
  /\ pc' = [pc EXCEPT ![j] = "accepted"]
  /\ tierLog' = [tierLog EXCEPT ![j] = <<>>]
  /\ UNCHANGED <<credentials, outputs, stream, err, text, calls, outcome, fetched, parserVars, request, page>>

\* the worker process dies while a conversion function runs: before it wrote
\* anything, after it wrote its output, or after it removed the input too.
\* Once the job's lock has expired the queue hands the job out again.
Redeliver(j) ==
  /\ job[j].mode = "worker"
  /\ pc[j] = "worker_convert"
  /\ job[j].attempt < MaxDeliveries
  /\ clock < MaxClock
  /\ clock' = clock + 1
  /\ \E progress \in {"started", "written", "unlinked"} :
       LET path == <<job[j].ts, WorkerSuffix(job[j].type)>> IN
       /\ progress # "started" => ExistsIn(job[j].input)
       /\ outputs' = IF progress = "started" THEN outputs
                     ELSE Written(path, Content(j, "worker-result", <<>>))
       /\ uploads' = IF progress = "unlinked" THEN Unlinked(j) ELSE uploads
       /\ job' = [job EXCEPT ![j].attempt = @ + 1,
                             ![j].used = IF progress = "started" THEN @ ELSE @ \cup {path}]
  /\ pc' = [pc EXCEPT ![j] = "queued"]
  /\ tierLog' = [tierLog EXCEPT ![j] = <<>>]
  /\ UNCHANGED <<credentials, stream, err, text, calls, outcome, fetched, parserVars, request, page>>

\* res.status(400).json({ success: false, error: 'No file uploaded' })
NoFileUploaded_500 ==
  [ok |-> FALSE, status |-> 500, path |-> NoPath, error |-> <<"TypeError">>,
   artifact |-> NoFile]

NoFileUploaded ==
  [ok |-> FALSE, status |-> 400, path |-> NoPath, error |-> <<"No file uploaded">>,
   artifact |-> NoFile]

\* POST /api/convert arrives without a file: multer stores nothing, req.file
\* is undefined and the handler answers before it calls processFile
RequestWithoutFile(j) ==
  /\ pc[j] = "idle"
  /\ \A k \in 1..(j - 1) : pc[k] # "idle"
  /\ \E t \in PoolTypes :
       job' = [job EXCEPT ![j] = [IdleJob EXCEPT !.mode = "http, no file", !.type = t]]
  /\ pc' = [pc EXCEPT ![j] = "done"]
  /\ outcome' = [outcome EXCEPT ![j] = Append(@, NoFileUploaded)]
  /\ UNCHANGED <<clock, credentials, uploads, outputs, stream, err, text, tierLog, calls,
                 fetched, parserVars, request, page>>

NextPool ==
  \/ \E j \in Jobs : SubmitPool(j)
  \/ \E j \in Jobs : RequestWithoutFile(j)
  \/ \E j \in Jobs : processFile(j)
  \/ \E j \in Jobs : CompressImageSettles(j)
  \/ \E j \in Jobs : WorkerProcessor(j)
  \/ \E j \in Jobs : WorkerSettles(j)
  \/ \E j \in Jobs : Retry(j)
  \/ \E j \in Jobs : Redeliver(j)

PoolSpec == Init /\ [][NextPool]_vars

\* ------------------------------------------- server.js: text reconstruction
\* Coordinates are the parser's page units counted in hundredths; a text is
\* the sequence of its characters.

\* the text items the parser finds on a page: position and encoded text of
\* the run (textItem.x, textItem.y, textItem.R[0].T)
TextItems ==
  { [x |-> 20, y |-> 1012, T |-> <<"A">>],
    [x |-> 20, y |-> 1000, T |-> <<"B">>],
    [x |-> 50, y |-> 1008, T |-> <<"C">>],
    [x |-> 50, y |-> 1016, T |-> <<"D">>],
    [x |-> 50, y |-> 1024, T |-> <<"E">>],
    [x |-> 50, y |-> 1000, T |-> <<"F">>],
    [x |-> 20, y |-> 1024, T |-> <<"%", "2", "0">>] }

\* the text items of the first n pages
RECURSIVE TextCount(_, _)
TextCount(Pages, n) == IF n = 0 THEN 0 ELSE TextCount(Pages, n - 1) + Len(Pages[n])

\* the documents read: one page of up to MaxFragments text items, or up to
\* MaxPages pages of up to MaxDocumentTexts items together
InBounds(Pages) ==
  /\ Len(Pages) <= MaxPages
  /\ \/ Len(Pages) = 1 /\ Len(Pages[1]) <= MaxFragments
     \/ TextCount(Pages, Len(Pages)) <= MaxDocumentTexts

\* the value of a promise nobody has resolved yet; type tells an array of
\* pages from a string
Unresolved == [by |-> "nobody", type |-> "undefined", value |-> <<>>, pass |-> 0]

\* the parser reads the next page of the file
ParsePage ==
  /\ resolved = Unresolved
  /\ InBounds(Append(pdfData.Pages, <<>>))
  /\ pdfData' = [Pages |-> Append(pdfData.Pages, <<>>)]
  /\ UNCHANGED <<serverVars, resolved, request, page>>

\* the parser reads the next text item of the page
ParseText ==
  /\ resolved = Unresolved
  /\ pdfData.Pages # <<>>
  /\ \E t \in TextItems :
       LET n == Len(pdfData.Pages)
           Pages == [pdfData.Pages EXCEPT ![n] = Append(@, t)]
       IN /\ InBounds(Pages)
          /\ pdfData' = [Pages |-> Pages]
  /\ UNCHANGED <<serverVars, resolved, request, page>>

\* the parser wrote the text with encodeURIComponent; of its escapes the
\* items hold %20
RECURSIVE decodeURIComponent(_)
decodeURIComponent(T) ==
  IF T = <<>> THEN <<>>
  ELSE IF Len(T) >= 3 /\ SubSeq(T, 1, 3) = <<"%", "2", "0">>
       THEN <<" ">> \o decodeURIComponent(SubSeq(T, 4, Len(T)))
       ELSE <<T[1]>> \o decodeURIComponent(Tail(T))

\* page.Texts.forEach: textElements.push({text, x, y}) for every run with a
\* text; run is the place of the run on the page, the identity of the object
textElements(Texts) ==
  LET pushed == [k \in 1..Len(Texts) |->
                   [text |-> decodeURIComponent(Texts[k].T), x |-> Texts[k].x,
                    y |-> Texts[k].y, run |-> k]]
      hasText(e) == Texts[e.run].T # <<>>
  IN SelectSeq(pushed, hasText)

Abs(n) == IF n < 0 THEN 0 - n ELSE n

\* (a, b) => { yDiff = b.y - a.y; if (Math.abs(yDiff) > 0.1) return yDiff;
\*             return a.x - b.x }
compare_yOnly(a, b) == b.y - a.y

compare_latestFirst(a, b) == b.run - a.run

compare(a, b) ==
  LET yDiff == b.y - a.y
  IN IF Abs(yDiff) > Tolerance THEN yDiff ELSE a.x - b.x

\* Array.prototype.sort of the engine the server runs on (ES modules: Node 12
\* or later), for arrays shorter than 64: the first run is counted and, when
\* descending, reversed; the other elements are placed by binary insertion.
Reverse(s) == [k \in 1..Len(s) |-> s[Len(s) + 1 - k]]

RECURSIVE CountRun(_, _, _)
CountRun(a, k, descending) ==
  IF k > Len(a) THEN Len(a)
  ELSE LET order == compare(a[k], a[k - 1])
       IN IF descending
          THEN IF order >= 0 THEN k - 1 ELSE CountRun(a, k + 1, descending)
          ELSE IF order < 0 THEN k - 1 ELSE CountRun(a, k + 1, descending)

CountAndMakeRun(a) ==
  LET descending == compare(a[2], a[1]) < 0
      run == CountRun(a, 3, descending)
  IN [length |-> run,
      array |-> IF descending
                THEN Reverse(SubSeq(a, 1, run)) \o SubSeq(a, run + 1, Len(a))
                ELSE a]

RECURSIVE BinarySearch(_, _, _, _)
BinarySearch(a, pivot, left, right) ==
  IF left < right
  THEN LET mid == left + ((right - left) \div 2)
       IN IF compare(pivot, a[mid]) < 0
          THEN BinarySearch(a, pivot, left, mid)
          ELSE BinarySearch(a, pivot, mid + 1, right)
  ELSE left

RECURSIVE BinaryInsertionSort(_, _)
BinaryInsertionSort(a, start) ==
  IF start > Len(a) THEN a
  ELSE LET pivot == a[start]
           left == BinarySearch(a, pivot, 1, start)
       IN BinaryInsertionSort(SubSeq(a, 1, left - 1) \o <<pivot>>
                                \o SubSeq(a, left, start - 1)
                                \o SubSeq(a, start + 1, Len(a)),
                              start + 1)

\* textElements.sort(compare)
sort_asIs(a) == a

sort(a) ==
  IF Len(a) < 2 THEN a
  ELSE LET made == CountAndMakeRun(a)
       IN BinaryInsertionSort(made.array, made.length + 1)

\* lastY = null
NoY == <<>>

\* extractPdfTextWithExactFormatting: textElements.forEach(element => ...),
\* then the push of the last line
RECURSIVE GroupLines_lastLineLost(_, _, _, _, _)
GroupLines_lastLineLost(elements, k, lines, currentLine, lastY) ==
  IF k > Len(elements)
  THEN lines
  ELSE LET element == elements[k]
           newLine == lastY # NoY /\ Abs(element.y - lastY[1]) > Tolerance
           push == newLine /\ Len(currentLine) > 0
       IN GroupLines_lastLineLost(elements, k + 1,
                     IF push THEN Append(lines, currentLine) ELSE lines,
                     Append(IF push THEN <<>> ELSE currentLine, element),
                     <<element.y>>)

\* every fragment joins the first line
GroupLines_oneLine(elements, k, lines, currentLine, lastY) ==
  IF elements = <<>> THEN <<>> ELSE <<elements>>

RECURSIVE GroupLines(_, _, _, _, _)
GroupLines(elements, k, lines, currentLine, lastY) ==
  IF k > Len(elements)
  THEN IF Len(currentLine) > 0 THEN Append(lines, currentLine) ELSE lines
  ELSE LET element == elements[k]
           newLine == lastY # NoY /\ Abs(element.y - lastY[1]) > Tolerance
           push == newLine /\ Len(currentLine) > 0
       IN GroupLines(elements, k + 1,
                     IF push THEN Append(lines, currentLine) ELSE lines,
                     Append(IF push THEN <<>> ELSE currentLine, element),
                     <<element.y>>)

Lines(elements) == GroupLines(elements, 1, <<>>, <<>>, NoY)

\* pageContent of a page: { pageNumber, lines }
pageContent(Texts, pageNumber) ==
  [pageNumber |-> pageNumber,
   lines |-> IF Len(Texts) > 0 THEN Lines(sort(textElements(Texts))) ELSE <<>>]

\* pdfData.Pages.forEach((page, pageIndex) => ... fullDocument.push(pageContent))
fullDocument_textPagesOnly(Pages) ==
  LET pushed == [i \in 1..Len(Pages) |-> pageContent(Pages[i], i)]
      hasLines(content) == content.lines # <<>>
  IN SelectSeq(pushed, hasLines)

fullDocument(Pages) == [i \in 1..Len(Pages) |-> pageContent(Pages[i], i)]

\* String.prototype.trim
Whitespace == {" ", "\n"}

RECURSIVE trimStart(_)
trimStart(s) ==
  IF s # <<>> /\ Head(s) \in Whitespace THEN trimStart(Tail(s)) ELSE s

trim(s) == Reverse(trimStart(Reverse(trimStart(s))))

\* extractPdfText: textElements.forEach(element => ...), then the last line
RECURSIVE AddLines_unseparated(_, _, _, _, _)
AddLines_unseparated(elements, k, fullText, currentLine, lastY) ==
  IF k > Len(elements)
  THEN IF trim(currentLine) # <<>>
       THEN fullText \o trim(currentLine) \o <<"\n">>
       ELSE fullText
  ELSE LET element == elements[k]
           newLine == lastY # NoY /\ Abs(element.y - lastY[1]) > Tolerance
       IN AddLines_unseparated(elements, k + 1,
                   IF newLine /\ trim(currentLine) # <<>>
                   THEN fullText \o trim(currentLine) \o <<"\n">>
                   ELSE fullText,
                   (IF newLine THEN <<>> ELSE currentLine) \o element.text,
                   <<element.y>>)

RECURSIVE AddLines(_, _, _, _, _)
AddLines(elements, k, fullText, currentLine, lastY) ==
  IF k > Len(elements)
  THEN IF trim(currentLine) # <<>>
       THEN fullText \o trim(currentLine) \o <<"\n">>
       ELSE fullText
  ELSE LET element == elements[k]
           newLine == lastY # NoY /\ Abs(element.y - lastY[1]) > Tolerance
       IN AddLines(elements, k + 1,
                   IF newLine /\ trim(currentLine) # <<>>
                   THEN fullText \o trim(currentLine) \o <<"\n">>
                   ELSE fullText,
                   (IF newLine THEN <<>> ELSE currentLine) \o element.text \o <<" ">>,
                   <<element.y>>)

\* `${pageIndex + 1}`
PageNumber(n) == CASE n = 1 -> "1" [] n = 2 -> "2" [] n = 3 -> "3" [] OTHER -> "4"

\* `\n--- Page ${pageIndex + 1} ---\n`
PageHeader(n) == <<"\n", "--- Page ", PageNumber(n), " ---", "\n">>

\* the text extractPdfText adds for one page
pageText(Texts, pageNumber) ==
  IF Len(Texts) > 0
  THEN AddLines(sort(textElements(Texts)), 1, PageHeader(pageNumber), <<>>, NoY)
  ELSE PageHeader(pageNumber)

RECURSIVE fullText(_, _)
fullText(Pages, n) ==
  IF n = 0 THEN <<>> ELSE fullText(Pages, n - 1) \o pageText(Pages[n], n)

NoTextContent == <<"No text content found in PDF.">>
UnableToExtract == <<"Unable to extract text from this PDF file.">>

\* resolve(fullText || 'No text content found in PDF.')
resolvedText(Pages) ==
  IF fullText(Pages, Len(Pages)) # <<>> THEN fullText(Pages, Len(Pages)) ELSE NoTextContent

\* pdfParser.on('pdfParser_dataReady') of extractPdfTextWithExactFormatting.
\* No statement of the try block throws on what the parser hands over.
ExactFormattingDataReady ==
  /\ resolved = Unresolved
  /\ resolved' = [by |-> "extractPdfTextWithExactFormatting", type |-> "array",
                  value |-> fullDocument(pdfData.Pages), pass |-> 1]
  /\ UNCHANGED <<serverVars, pdfData, request, page>>

\* pdfParser.on('pdfParser_dataReady') of extractPdfText
PlainTextDataReady ==
  /\ resolved = Unresolved
  /\ resolved' = [by |-> "extractPdfText", type |-> "string",
                  value |-> resolvedText(pdfData.Pages), pass |-> 1]
  /\ UNCHANGED <<serverVars, pdfData, request, page>>

\* pdfParser.on('pdfParser_dataError') of either function: the file cannot be
\* parsed, no page is handed over
ParserDataError ==
  /\ resolved = Unresolved
  /\ pdfData.Pages = <<>>
  /\ \E fn \in {"extractPdfTextWithExactFormatting", "extractPdfText"} :
       resolved' = [by |-> fn, type |-> "string", value |-> UnableToExtract, pass |-> 1]
  /\ UNCHANGED <<serverVars, pdfData, request, page>>

\* the text items of a page in the order the sort gives its fragments
InOutputOrder(Texts) ==
  LET sorted == sort(textElements(Texts))
  IN [k \in 1..Len(sorted) |-> Texts[sorted[k].run]]

\* The function is run again on a file that holds the fragments of every
\* page, at their positions, in the order of the first result.
ReparseOutput ==
  /\ resolved.pass = 1
  /\ IF resolved.type = "string" THEN resolved.value # UnableToExtract ELSE TRUE
  /\ LET Pages == [p \in 1..Len(pdfData.Pages) |-> InOutputOrder(pdfData.Pages[p])]
     IN /\ pdfData' = [Pages |-> Pages]
        /\ resolved' = [resolved EXCEPT
                          !.value = IF resolved.by = "extractPdfText"
                                    THEN resolvedText(Pages)
                                    ELSE fullDocument(Pages),
                          !.pass = 2]
  /\ UNCHANGED <<serverVars, request, page>>

NextReconstruct ==
  \/ ParsePage
  \/ ParseText
  \/ ExactFormattingDataReady
  \/ PlainTextDataReady
  \/ ParserDataError
  \/ ReparseOutput

ReconstructSpec == Init /\ [][NextReconstruct]_vars

\* ------------------------------------------------- index.js: fetchWithRetry
\* the two calls of the page: the upload and the download of the result
Urls == {"/api/convert", "/api/download"}

\* what a fetch settles with: a response with its status, or a rejection
FetchResults == {"200", "404", "500", "TypeError: Failed to fetch"}

\* the retries argument of a call; the page's own calls leave it at its
\* default
RetriesArgs == 0..MaxRetries \cup {retries}

\* Math.min(1000 * Math.pow(2, i), 10000)
delay_uncapped(i) == 1000 * (2 ^ i)

delay(i) == IF 1000 * (2 ^ i) < 10000 THEN 1000 * (2 ^ i) ELSE 10000

\* for (...; i < retries; ...): the next fetch is sent, or the loop and with
\* it the function ends without a return statement
Loop(i) ==
  IF i < request.retries
  THEN request' = [request EXCEPT !.pc = "fetch", !.i = i, !.sent = Append(@, i)]
  ELSE request' = [request EXCEPT !.pc = "returned", !.i = i, !.result = <<"undefined">>]

\* fetchWithRetry(url, options, retries) is called
fetchWithRetry(url, n) ==
  /\ request.pc = "idle"
  /\ IF 0 < n
     THEN request' = [request EXCEPT !.pc = "fetch", !.url = url, !.retries = n,
                                     !.sent = <<0>>]
     ELSE request' = [request EXCEPT !.pc = "returned", !.url = url, !.retries = n,
                                     !.result = <<"undefined">>]
  /\ UNCHANGED <<serverVars, parserVars, page>>

CallFetch == \E url \in Urls, n \in RetriesArgs : fetchWithRetry(url, n)

\* await fetch(...) settles: an OK response is returned; a response that is
\* not OK throws into the same catch as a rejection, which throws for good
\* after the last attempt and otherwise sets the timer
FetchSettles ==
  /\ request.pc = "fetch"
  /\ \E r \in FetchResults :
       LET message == IF r \in {"404", "500"} THEN "HTTP " \o r ELSE r
       IN IF r = "200"
          THEN request' = [request EXCEPT !.pc = "returned", !.result = <<"response", r>>]
          ELSE IF request.i = request.retries - 1
               THEN request' = [request EXCEPT
                                  !.pc = "thrown",
                                  !.result = <<"error", "Network request failed", message>>]
               ELSE request' = [request EXCEPT !.pc = "sleep",
                                                !.timers = Append(@, delay(request.i))]
  /\ UNCHANGED <<serverVars, parserVars, page>>

\* the timer of the delay fires: i++, and the loop goes on
TimerFires ==
  /\ request.pc = "sleep"
  /\ Loop(request.i + 1)
  /\ UNCHANGED <<serverVars, parserVars, page>>

NextFetch ==
  \/ CallFetch
  \/ FetchSettles
  \/ TimerFires

FetchSpec == Init /\ [][NextFetch]_vars

\* ------------------------------------------------------- index.js: the page
\* const tools = [...]: the tool ids and the extensions each accepts
Tools == {"pdf-to-word", "image-to-pdf", "compress-pdf"}

accept(tool) == IF tool = "image-to-pdf" THEN {".jpg", ".png"} ELSE {".pdf"}

\* the files the user may pick: an extension, and whether it is over 50MB
Files == {[ext |-> ".pdf", large |-> FALSE], [ext |-> ".jpg", large |-> FALSE],
          [ext |-> ".pdf", large |-> TRUE]}

NullFile == [ext |-> "null", large |-> FALSE]

\* the fetchWithRetry call of the page when none is running
IdleRequest ==
  [pc |-> "idle", url |-> "none", retries |-> 0, i |-> 0, sent |-> <<>>,
   timers |-> <<>>, result |-> <<>>]

\* checkBackend up to its await fetch(`${API_BASE_URL}/health`)
checkBackend(p) == [p EXCEPT !.backendStatus = "checking", !.check = @ + 1]

\* useEffect(() => {...}, []): runs once, after the first render.  It calls
\* checkBackend and sets the interval, whose callback closes over the
\* backendStatus of the render that ran the effect.
Mount ==
  /\ ~page.mounted
  /\ page' = [checkBackend(page) EXCEPT !.mounted = TRUE,
                                        !.closure = page.backendStatus]
  /\ UNCHANGED <<serverVars, parserVars, request>>

\* the server behind /health comes up
BackendRecovers ==
  /\ page.backend = "down"
  /\ page' = [page EXCEPT !.backend = "up"]
  /\ UNCHANGED <<serverVars, parserVars, request>>

\* await fetch(.../health) settles: response.ok sets 'connected'; a response
\* that is not ok, or a rejection, sets 'error'
HealthSettles ==
  /\ page.check > 0
  /\ page' = [page EXCEPT !.check = @ - 1,
                          !.backendStatus = IF page.backend = "up" THEN "connected"
                                            ELSE "error"]
  /\ UNCHANGED <<serverVars, parserVars, request>>

\* setInterval(() => { if (backendStatus === 'error') checkBackend(); }, 15000)
IntervalFires ==
  /\ page.mounted
  /\ IF page.closure = "error" THEN page' = checkBackend(page) ELSE page' = page
  /\ UNCHANGED <<serverVars, parserVars, request>>

\* validateFile(file)
validateFile(f, tool) ==
  IF f.large THEN "File size must be less than 50MB"
  ELSE IF f.ext \notin accept(tool) THEN "Please select a valid file type"
  ELSE "valid"

\* handleFileChange / handleDrop
handleFileChange ==
  /\ page.mounted
  /\ \E f \in Files :
       IF validateFile(f, page.type) = "valid"
       THEN page' = [page EXCEPT !.file = f, !.toast = "File selected!"]
       ELSE page' = [page EXCEPT !.toast = validateFile(f, page.type)]
  /\ UNCHANGED <<serverVars, parserVars, request>>

\* onClick of a tool: setType(tool.id); setFile(null); setResult(null)
SelectTool ==
  /\ page.mounted
  /\ \E t \in Tools : page' = [page EXCEPT !.type = t, !.file = NullFile, !.result = <<>>]
  /\ UNCHANGED <<serverVars, parserVars, request>>

\* onClick={() => setFile(null)}, shown with the selected file
RemoveFile ==
  /\ page.mounted
  /\ page.file # NullFile
  /\ page' = [page EXCEPT !.file = NullFile]
  /\ UNCHANGED <<serverVars, parserVars, request>>

\* the early returns of handleSubmit
Refusal_fileOnly(p) ==
  IF p.file = NullFile THEN "Please select a file first" ELSE "none"

Refusal(p) ==
  IF p.file = NullFile THEN "Please select a file first"
  ELSE IF p.backendStatus # "connected"
       THEN "Backend is not connected. Please wait for connection."
  ELSE "none"

\* <button onClick={handleSubmit} disabled={!file || loading}>
disabled(p) == p.file = NullFile \/ p.loading

\* handleSubmit up to its await fetchWithRetry(.../api/convert, {method: 'POST'})
handleSubmit ==
  /\ page.mounted
  /\ ~disabled(page)
  /\ IF Refusal(page) # "none"
     THEN /\ page' = [page EXCEPT !.toast = Refusal(page)]
          /\ UNCHANGED request
     ELSE /\ page' = [page EXCEPT !.loading = TRUE, !.result = <<>>,
                                  !.submit = "awaiting",
                                  !.toast = "Converting your file..."]
          /\ request' = [IdleRequest EXCEPT !.pc = "fetch", !.url = "/api/convert",
                                            !.retries = retries, !.sent = <<0>>]
  /\ UNCHANGED <<serverVars, parserVars>>

\* the message handleSubmit's catch stores for an error
errorMessage(message) ==
  IF message = "TypeError: Failed to fetch"
  THEN "Cannot reach server. Please check if the backend is running."
  ELSE message

\* finally { setLoading(false) }
Finally(p) == [p EXCEPT !.loading = FALSE]

\* handleSubmit after its await: the response's body is stored, or, in the
\* catch, { error: errorMessage }
SubmitSettles ==
  /\ page.submit = "awaiting"
  /\ request.pc \in {"returned", "thrown"}
  /\ \E body \in {"json", "not json"} :
       IF request.pc = "returned" /\ body = "json"
       THEN page' = Finally([page EXCEPT !.submit = "idle",
                                         !.result = <<"data", "success">>,
                                         !.toast = "Conversion completed successfully!"])
       ELSE LET message == IF request.pc = "thrown" THEN request.result[3]
                           ELSE "SyntaxError"
            IN page' = Finally([page EXCEPT !.submit = "idle",
                                            !.result = <<"error", errorMessage(message)>>,
                                            !.toast = errorMessage(message)])
  /\ request' = IdleRequest
  /\ UNCHANGED <<serverVars, parserVars>>

\* the results panel: {result && result.error && (...)} and {result && (...)}
ShowsFailure(p) == p.result # <<>> /\ p.result[1] = "error"

ShowsSuccess(p) == p.result # <<>>

NextPage ==
  \/ Mount
  \/ BackendRecovers
  \/ HealthSettles
  \/ IntervalFires
  \/ handleFileChange
  \/ SelectTool
  \/ RemoveFile
  \/ handleSubmit
  \/ (page.submit = "awaiting" /\ FetchSettles)
  \/ (page.submit = "awaiting" /\ TimerFires)
  \/ SubmitSettles

PageSpec == Init /\ [][NextPage]_vars

\* every pending health check settles and the interval keeps firing
PageFairSpec ==
  /\ PageSpec
  /\ WF_vars(HealthSettles)
  /\ WF_vars(IntervalFires)

\* ============================================================ properties
Done(j) == pc[j] = "done"
Result(j) == outcome[j][1]
Has(j, tier, what) == \E i \in DOMAIN tierLog[j] : tierLog[j][i] = Ev(tier, what)
Count(j, tier, what) == Cardinality({i \in DOMAIN tierLog[j] : tierLog[j][i] = Ev(tier, what)})
WroteNothing(j) == \A p \in DOMAIN outputs : outputs[p].by # j

\* the tier a caller reads off the name of the output file it is given
TierOf(mode, name) ==
  IF mode = "worker" THEN Transform
  ELSE CASE name = "converted.docx" -> Cloud
         [] name = "fallback.docx" -> Local
         [] name = "error_report.docx" -> Diag
         [] name = "video_copy.mp4" -> RawCopy
         [] name = "compressed.pdf" -> Cloud
         [] OTHER -> Transform

\* C1: a job whose type is not registered ends at dispatch with the
\* unknown-type error: no tier is ever started for it, no cloud call is
\* made and no file of outputs/ is written by it.
C1_UnknownTypeRejected ==
  \A j \in Jobs :
    (job[j].type \in JobTypes \ Registered /\ pc[j] \notin {"idle", "accepted", "queued"}) =>
      /\ Done(j)
      /\ Len(outcome[j]) = 1
      /\ ~Result(j).ok
      /\ Result(j).error \in {<<"Unknown conversion type", job[j].type>>,
                              <<"Unknown job type", job[j].type>>}
      /\ tierLog[j] = <<>>
      /\ calls[j] = 0
      /\ stream[j] = "none"
      /\ WroteNothing(j)

C1_Witness ==
  \E j \in Jobs : job[j].type \in JobTypes \ Registered /\ Done(j) /\ ~Result(j).ok

\* C2: a job of a registered type has no outcome while it runs and exactly
\* one when it is done; the outcome is either a result (an output path, no
\* error) or an error (no path), and the tier read off the name of the
\* output file is the one tier that succeeded.
C2_OneOutcomeNamesTier ==
  \A j \in Jobs :
    job[j].type \in Registered =>
      /\ Len(outcome[j]) = (IF Done(j) THEN 1 ELSE 0)
      /\ Done(j) =>
           IF Result(j).ok
             THEN /\ Result(j).path # NoPath
                  /\ Result(j).error = NoError
                  /\ tierLog[j][Len(tierLog[j])] = Ev(TierOf(job[j].mode, Result(j).path[2]), "ok")
                  /\ \A i \in DOMAIN tierLog[j] :
                       tierLog[j][i][2] = "ok" => i = Len(tierLog[j])
             ELSE /\ Result(j).path = NoPath
                  /\ Result(j).error # NoError
                  /\ \A i \in DOMAIN tierLog[j] : tierLog[j][i][2] # "ok"

C2_Witness ==
  \E j \in Jobs :
    /\ job[j].mode = "http" /\ job[j].type = "pdf-to-word" /\ Done(j)
    /\ Result(j).ok /\ TierOf("http", Result(j).path[2]) = Local

Http(j, type) == job[j].mode = "http" /\ job[j].type = type
LastEvent(j) == IF tierLog[j] = <<>> THEN Ev("none", "none") ELSE tierLog[j][Len(tierLog[j])]
Contains(body, m) == \E i \in DOMAIN body : body[i] = m

\* the chain of a pdf-to-word job on the server, in the order of the spec
DocChain == <<Cloud, Local, Diag>>
ChainPos(t) == CHOOSE n \in DOMAIN DocChain : DocChain[n] = t

\* C3: in a pdf-to-word job a tier starts only after every earlier tier of
\* the chain cloud, local extraction, diagnostic report has failed, and no
\* tier starts after a tier has succeeded.
C3_TierOrder ==
  \A j \in Jobs :
    Http(j, "pdf-to-word") =>
      \A i \in DOMAIN tierLog[j] :
        tierLog[j][i][2] = "start" =>
          /\ \A n \in 1..(ChainPos(tierLog[j][i][1]) - 1) :
               \E k \in 1..(i - 1) : tierLog[j][k] = Ev(DocChain[n], "fail")
          /\ \A k \in 1..(i - 1) : tierLog[j][k][2] # "ok"

\* the conversion tiers the code chains for a job (the report aside)
ConversionTiers(mode, type) ==
  IF mode = "worker" THEN {Transform}
  ELSE CASE type = "pdf-to-word" -> {Cloud, Local}
         [] type = "compress-video" -> {Transform, RawCopy}
         [] type = "compress-pdf" -> {Cloud, RawCopy}
         [] OTHER -> {Transform}

\* a finished job every conversion tier of which has failed, the report
\* (where one was attempted) having been written
Exhausted(j) ==
  /\ Done(j)
  /\ \A t \in ConversionTiers(job[j].mode, job[j].type) : Has(j, t, "fail")
  /\ LastEvent(j) # Ev(Diag, "fail")

\* the message of the failure that sent a pdf-to-word job to the report
Captured(j) ==
  IF Has(j, Local, "fail") THEN "fallback write error" ELSE "stream write error"

IsErrorReport(j) ==
  /\ Result(j).ok
  /\ Result(j).path = <<job[j].ts, "error_report.docx">>
  /\ Result(j).artifact.what = "error-report"
  /\ Contains(Result(j).artifact.body, Captured(j))

\* C4 as stated: whenever every conversion tier of a job of a registered
\* type has failed, the outcome is a success whose artifact is the
\* diagnostic report carrying the captured error message.
C4_AnyJobExhaustedGivesReport ==
  \A j \in Jobs : (job[j].type \in Registered /\ Exhausted(j)) => IsErrorReport(j)

\* C4 amended: that holds for a pdf-to-word job on the HTTP server; for
\* every other registered type, and for every job of the worker, a job
\* every tier of which fails ends with an error.
C4_PdfToWordExhaustedGivesReport ==
  \A j \in Jobs :
    (job[j].type \in Registered /\ Exhausted(j)) =>
      IF Http(j, "pdf-to-word") THEN IsErrorReport(j) ELSE ~Result(j).ok

C4_Witness ==
  \E j \in Jobs :
    /\ Http(j, "pdf-to-word") /\ Exhausted(j)
    /\ Has(j, Cloud, "fail") /\ Has(j, Local, "fail")
    /\ Result(j).path = <<job[j].ts, "error_report.docx">>

\* what C5 says of the cloud tier of a job without credentials: no cloud
\* call, one attempt, the local tier next
UnconfiguredSkipsCloud(j) ==
  /\ calls[j] = 0
  /\ stream[j] = "none"
  /\ Count(j, Cloud, "start") = 1
  /\ Len(tierLog[j]) >= 3
  /\ tierLog[j][2] = Ev(Cloud, "fail")
  /\ tierLog[j][3] = Ev(Local, "start")

IsLocalResult(j) ==
  /\ Result(j).ok
  /\ TierOf("http", Result(j).path[2]) = Local
  /\ Result(j).artifact.what = "text-docx"

\* C5 as stated: without credentials the cloud tier of a pdf-to-word job
\* ends without a cloud call and is not retried, the local tier runs next,
\* and the outcome is the local tier's output.
C5_UnconfiguredEndsLocal ==
  \A j \in Jobs :
    (Http(j, "pdf-to-word") /\ credentials[j] = "null") =>
      /\ UnconfiguredSkipsCloud(j)
      /\ Done(j) => IsLocalResult(j)

\* C5 amended: ... and the outcome is the local tier's output unless the
\* write of the local tier's document fails, in which case the chain goes
\* on to the diagnostic report.
C5_UnconfiguredEndsLocalUnlessWriteFails ==
  \A j \in Jobs :
    (Http(j, "pdf-to-word") /\ credentials[j] = "null") =>
      /\ UnconfiguredSkipsCloud(j)
      /\ Done(j) =>
           IF Has(j, Local, "fail")
             THEN Has(j, Diag, "start") /\ ~Has(j, Local, "ok")
             ELSE IsLocalResult(j)

C5_Witness ==
  \E j \in Jobs :
    Http(j, "pdf-to-word") /\ credentials[j] = "null" /\ Done(j) /\ IsLocalResult(j)

C7_CompressPdfFallsBackToCopy ==
  \A j \in Jobs :
    (Http(j, "compress-pdf") /\ Has(j, Cloud, "fail")) =>
      /\ Has(j, RawCopy, "start")
      /\ Done(j) => (Result(j).ok /\ Result(j).path # NoPath)

IsVideoCopy(j) ==
  /\ Result(j).ok
  /\ Result(j).path = <<job[j].ts, "video_copy.mp4">>
  /\ Result(j).artifact = Content(j, "copy", <<job[j].input>>)

\* C8 as stated: in a compress-video job a failed availability check or a
\* failed transcode is followed by exactly one run of the raw copy and the
\* job completes with a copy of the input; after a successful transcode the
\* raw copy never runs.
C8_VideoFallsBackToCopy ==
  \A j \in Jobs :
    Http(j, "compress-video") =>
      /\ Has(j, Transform, "fail") =>
           Count(j, RawCopy, "start") = 1 /\ Done(j) /\ IsVideoCopy(j)
      /\ Has(j, Transform, "ok") => ~Has(j, RawCopy, "start")

\* C8 amended: ... exactly one run of the raw copy; the job completes with
\* a copy of the input if the copy succeeds and ends with the error `Video
\* compression failed: Video fallback processing failed: ...` if it fails.
C8_VideoFallsBackToCopyOrFails ==
  \A j \in Jobs :
    Http(j, "compress-video") =>
      /\ Has(j, Transform, "fail") =>
           /\ Count(j, RawCopy, "start") = 1
           /\ Done(j)
           /\ IF Has(j, RawCopy, "ok")
                THEN IsVideoCopy(j)
                ELSE /\ ~Result(j).ok
                     /\ Result(j).error = <<"Video compression failed",
                                            "Video fallback processing failed", "copy error">>
      /\ Has(j, Transform, "ok") => ~Has(j, RawCopy, "start")

C8_Witness ==
  \E j \in Jobs :
    Http(j, "compress-video") /\ Has(j, Transform, "fail") /\ Done(j) /\ IsVideoCopy(j)

\* C9: a cloud tier whose download timer fired is treated as failed, the
\* local tier runs next, and the cloud tier is not the tier of the outcome.
C9_TimeoutFailsTier ==
  \A j \in Jobs :
    \A i \in DOMAIN tierLog[j] :
      tierLog[j][i] = Ev(Cloud, "timeout") =>
        /\ Len(tierLog[j]) >= i + 2
        /\ tierLog[j][i + 1] = Ev(Cloud, "fail")
        /\ tierLog[j][i + 2] = Ev(Local, "start")
        /\ (Done(j) /\ Result(j).ok) => TierOf(job[j].mode, Result(j).path[2]) # Cloud

\* C10: when a job is done, on the server or in the worker, with a result
\* or with an error, its input file is no longer in uploads/.
C10_InputRemoved ==
  \A j \in Jobs : Done(j) => ~ExistsIn(job[j].input)

\* C13: every request accepted and every job queued is answered: it reaches
\* its terminal state with one response (one notification), and never gets
\* a second one.
C13_EveryJobTerminates ==
  /\ [](\A j \in Jobs : Len(outcome[j]) <= 1)
  /\ \A j \in Jobs : (pc[j] # "idle") ~> (Done(j) /\ Len(outcome[j]) = 1)

\* C14: the file a success response names is in outputs/ when the response
\* is sent, and a download of that name afterwards is answered 200, not 404.
C14_CompletedIsDownloadable ==
  \A j \in Jobs :
    (job[j].mode = "http" /\ Done(j) /\ Result(j).ok) =>
      /\ Result(j).artifact # NullFile
      /\ ExistsOut(Result(j).path)
      /\ download(Result(j).path) = "200"
      /\ fetched[j] \in {"none", "200"}

C14_Witness ==
  \E j \in Jobs : job[j].mode = "http" /\ Done(j) /\ Result(j).ok /\ fetched[j] = "200"

\* C20: while the local tier or the diagnostic report of a job runs, the
\* download of the cloud tier of that job is over: its write stream is
\* neither waiting to open nor open.
C20_TiersSequential ==
  \A j \in Jobs :
    pc[j] \in {"extractPdfText", "fallback_write", "report_inner", "report_outer"} =>
      stream[j] \notin {"pending", "open"}

\* the levels of the interface
DefinedLevels == {"low", "medium", "high"}

\* the table of a media kind, as the server's conversion function holds it
SettingsTable(type) ==
  CASE type = "compress-image" -> imageCompressionSettings
    [] type = "compress-video" -> videoCompressionSettings
    [] OTHER -> adobeCompressionMap

\* C15: on the server, for each media kind, a compressionLevel that is not
\* low, medium or high resolves, without an error, to the medium entry of
\* the table of that kind.
C15_UnknownLevelIsMedium ==
  \A j \in Jobs :
    (job[j].mode = "http" /\ job[j].type \in CompressTypes
       /\ job[j].level \notin DefinedLevels /\ job[j].settings # NoSettings) =>
      job[j].settings = SettingsTable(job[j].type).medium

\* the level a compress-image request resolves to: its own if the table has
\* it, medium otherwise
ResolvedLevel(level) ==
  IF level \in DOMAIN imageCompressionSettings THEN level ELSE "medium"

\* C16: a compress-image job whose transform has started, on the server or
\* in the worker, is transformed with the table entry of its resolved
\* level: the medium entry (quality 75, 1920x1080) for "bogus".
C16_ImageUsesTableEntry ==
  \A j \in Jobs :
    (job[j].type = "compress-image" /\ tierLog[j] # <<>>) =>
      job[j].settings = imageCompressionSettings[ResolvedLevel(job[j].level)]

\* the job is between its submission and its terminal state
Active(j) == pc[j] \notin {"idle", "done"}

\* the job's conversion function has read the clock for its output names
Started(j) == pc[j] \notin {"idle", "accepted", "queued", "done"}

\* the names under which the conversion functions of a job type write
OutputNames(mode, type) ==
  IF mode = "worker" THEN {WorkerSuffix(type)}
  ELSE CASE type = "pdf-to-word" ->
              {OutputName("convertPdfToWord"), OutputName("convertPdfToWordFallback"),
               OutputName("createErrorReport")}
         [] type = "image-to-pdf" -> {OutputName("convertImageToPdf")}
         [] type = "compress-image" -> {OutputName("compressImage")}
         [] type = "compress-video" ->
              {OutputName("compressVideo"), OutputName("compressVideoFallback")}
         [] OTHER -> {OutputName("compressPdf")}

OutputPaths(j) == {<<job[j].ts, n>> : n \in OutputNames(job[j].mode, job[j].type)}

\* C11: two jobs that run at the same time have different input paths and,
\* once both have started, no output path in common.
C11_PathsDisjoint ==
  \A j, k \in Jobs :
    (j # k /\ Active(j) /\ Active(k)) =>
      /\ job[j].input # job[k].input
      /\ (Started(j) /\ Started(k)) => OutputPaths(j) \cap OutputPaths(k) = {}

\* C12: a job handed to the worker again finds what a first attempt finds,
\* its input file, and the output of an attempt that completes is not a
\* path an earlier attempt of the job wrote to.
C12_RedeliverySafe ==
  \A j \in Jobs :
    (job[j].mode = "worker" /\ job[j].attempt > 1) =>
      /\ Active(j) => ExistsIn(job[j].input)
      /\ (Done(j) /\ outcome[j][Len(outcome[j])].ok) =>
           outcome[j][Len(outcome[j])].path \notin job[j].used

C19_OneNotification ==
  \A j \in Jobs :
    job[j].mode = "worker" =>
      /\ Len(outcome[j]) = (IF Done(j) THEN 1 ELSE 0)
      /\ Done(j) =>
           IF Result(j).ok
             THEN /\ Result(j).path = <<job[j].ts, WorkerSuffix(job[j].type)>>
                  /\ Result(j).artifact = Content(j, "worker-result", <<>>)
                  /\ Result(j).error = NoError
             ELSE /\ Result(j).path = NoPath
                  /\ Result(j).error \in {<<"transform error">>,
                                          <<"Unknown job type", job[j].type>>}

C19_Witness ==
  \E j, k \in Jobs :
    /\ job[j].mode = "worker" /\ Done(j) /\ Result(j).ok /\ job[j].attempt = 2
    /\ job[k].mode = "worker" /\ Done(k) /\ ~Result(k).ok

\* ------------------------------------------ properties: text reconstruction
\* the promise of extractPdfTextWithExactFormatting resolved with a document
IsDocument ==
  resolved.by = "extractPdfTextWithExactFormatting" /\ resolved.type = "array"

\* the promise of extractPdfText resolved with the text of a document
IsPlainText ==
  resolved.by = "extractPdfText" /\ resolved.value # UnableToExtract

\* the fragments of the lines, one after the other
RECURSIVE Flat(_)
Flat(lines) == IF lines = <<>> THEN <<>> ELSE Head(lines) \o Flat(Tail(lines))

\* C21: on every reconstructed page the lines run top to bottom (a fragment
\* of an earlier line is not below a fragment of a later line by more than
\* the tolerance) and the fragments of a line run left to right
\* (non-decreasing x).
C21_LinesTopDownFragmentsLeftRight ==
  IsDocument =>
    \A p \in DOMAIN resolved.value :
      LET lines == resolved.value[p].lines
      IN /\ \A i, j \in DOMAIN lines :
              i < j => \A a \in DOMAIN lines[i], b \in DOMAIN lines[j] :
                         lines[i][a].y >= lines[j][b].y - Tolerance
         /\ \A i \in DOMAIN lines : \A a, b \in DOMAIN lines[i] :
              a < b => lines[i][a].x <= lines[i][b].x

\* the page of the file that page p of the resolved document was built from
Fragments(p) == textElements(pdfData.Pages[p])

\* the sequence the sort handed to the grouping of page p: grouping keeps
\* the order
Sorted(p) == Flat(resolved.value[p].lines)

\* s holds the fragments of page p, each once
IsPermutation(s, p) ==
  /\ Len(s) = Len(Fragments(p))
  /\ \A k \in DOMAIN Fragments(p) : \E i \in DOMAIN s : s[i] = Fragments(p)[k]

\* the y values of the page are pairwise equal or more than the tolerance apart
CleanPage(p) ==
  \A a, b \in DOMAIN Fragments(p) :
    \/ Fragments(p)[a].y = Fragments(p)[b].y
    \/ Abs(Fragments(p)[a].y - Fragments(p)[b].y) > Tolerance

\* a stands before b in the order by descending y, then ascending x
KeyOrdered(a, b) == a.y > b.y \/ (a.y = b.y /\ a.x <= b.x)

\* C22 as stated: the sequence handed to line grouping is the page's
\* fragments sorted by descending y and, among equal y, by ascending x.
C22_SortedByYThenX ==
  IsDocument =>
    \A p \in DOMAIN resolved.value :
      /\ IsPermutation(Sorted(p), p)
      /\ \A i, j \in DOMAIN Sorted(p) : i < j => KeyOrdered(Sorted(p)[i], Sorted(p)[j])

\* C22, amended: the sequence handed to line grouping holds the page's
\* fragments, each followed either by a fragment more than the tolerance
\* below it or by one within the tolerance of it and not to its left; on a
\* page whose y values are pairwise equal or more than the tolerance apart
\* it is the sequence sorted by descending y, then ascending x.
C22_SortedWithinTolerance ==
  IsDocument =>
    \A p \in DOMAIN resolved.value :
      /\ IsPermutation(Sorted(p), p)
      /\ \A i \in DOMAIN Sorted(p) :
           i < Len(Sorted(p)) =>
             LET a == Sorted(p)[i]
                 b == Sorted(p)[i + 1]
             IN \/ a.y - b.y > Tolerance
                \/ Abs(a.y - b.y) <= Tolerance /\ a.x <= b.x
      /\ CleanPage(p) =>
           \A i, j \in DOMAIN Sorted(p) :
             i < j => KeyOrdered(Sorted(p)[i], Sorted(p)[j])

\* a page was sorted that holds two fragments within the tolerance at
\* different heights and a third more than the tolerance away
C22_Witness ==
  /\ IsDocument
  /\ \E p \in DOMAIN resolved.value :
       \E i, j, k \in DOMAIN Sorted(p) :
         /\ Sorted(p)[i].y # Sorted(p)[j].y
         /\ Abs(Sorted(p)[i].y - Sorted(p)[j].y) <= Tolerance
         /\ Abs(Sorted(p)[i].y - Sorted(p)[k].y) > Tolerance
         /\ Sorted(p) # Fragments(p)

\* the y values found on page p
Heights(p) == {Fragments(p)[k].y : k \in DOMAIN Fragments(p)}

\* C23: on a page whose y values are pairwise equal or more than the
\* tolerance apart, the reconstructed page has one line per distinct y, the
\* lines stand in descending y order and each line lists its fragments in
\* ascending x order.
C23_OneLinePerHeight ==
  IsDocument =>
    \A p \in DOMAIN resolved.value :
      CleanPage(p) =>
        LET lines == resolved.value[p].lines
        IN /\ IsPermutation(Flat(lines), p)
           /\ Len(lines) = Cardinality(Heights(p))
           /\ \A i \in DOMAIN lines : \A a, b \in DOMAIN lines[i] :
                /\ lines[i][a].y = lines[i][b].y
                /\ a < b => lines[i][a].x <= lines[i][b].x
           /\ \A i, j \in DOMAIN lines : i < j => lines[i][1].y > lines[j][1].y

\* the texts of a line
TextsOf(line) == [k \in DOMAIN line |-> line[k].text]

\* the page F(x=50,y=10.00), B(x=20,y=10.00), E(x=50,y=10.24) was
\* reconstructed as the lines [E] and [B, F]
C23_Witness ==
  /\ IsDocument
  /\ pdfData.Pages = << << [x |-> 50, y |-> 1000, T |-> <<"F">>],
                           [x |-> 20, y |-> 1000, T |-> <<"B">>],
                           [x |-> 50, y |-> 1024, T |-> <<"E">>] >> >>
  /\ Len(resolved.value[1].lines) = 2
  /\ TextsOf(resolved.value[1].lines[1]) = << <<"E">> >>
  /\ TextsOf(resolved.value[1].lines[2]) = << <<"B">>, <<"F">> >>

\* the lines of page p as grouped from its sorted fragments
Grouped(p) == Lines(sort(Fragments(p)))

\* the structured page p is its sorted fragments cut exactly where two
\* consecutive fragments are more than the tolerance apart, the last line
\* included
CutAtTolerance(p) ==
  LET lines == resolved.value[p].lines
  IN /\ IsPermutation(Flat(lines), p)
     /\ \A i \in DOMAIN lines :
          /\ lines[i] # <<>>
          /\ \A a \in DOMAIN lines[i] :
               a < Len(lines[i]) => Abs(lines[i][a + 1].y - lines[i][a].y) <= Tolerance
          /\ i < Len(lines) =>
               Abs(lines[i + 1][1].y - lines[i][Len(lines[i])].y) > Tolerance

\* the text lines extractPdfText wrote: every page writes two line ends for
\* its header, every line written one more
TextLines == Cardinality({k \in DOMAIN resolved.value : resolved.value[k] = "\n"})
               - 2 * Len(pdfData.Pages)

\* a line holding a character that is no white space
Visible(line) ==
  \E a \in DOMAIN line : \E c \in DOMAIN line[a].text : line[a].text[c] \notin Whitespace

RECURSIVE LineCount(_, _)
LineCount(n, visibleOnly) ==
  IF n = 0 THEN 0
  ELSE LineCount(n - 1, visibleOnly)
         + Cardinality({i \in DOMAIN Grouped(n) : ~visibleOnly \/ Visible(Grouped(n)[i])})

\* C24 as stated: in both functions a new line starts exactly when the y
\* difference to the previous fragment of the sorted sequence is greater
\* than the tolerance, and the last open line is always emitted.
C24_EveryLineEmitted ==
  /\ IsDocument => \A p \in DOMAIN resolved.value : CutAtTolerance(p)
  /\ IsPlainText => TextLines = LineCount(Len(pdfData.Pages), FALSE)

\* C24, amended: a new line starts exactly when the y difference to the
\* previous fragment of the sorted sequence is greater than the tolerance;
\* the structured reconstruction emits every line, the last included, and
\* the plain-text extraction emits every line, the last included, that
\* holds more than white space.
C24_EveryVisibleLineEmitted ==
  /\ IsDocument => \A p \in DOMAIN resolved.value : CutAtTolerance(p)
  /\ IsPlainText => TextLines = LineCount(Len(pdfData.Pages), TRUE)

\* the page B(y=10.00), C(y=10.08), E(y=10.24) was grouped: B and C, 0.08
\* apart, form one line; E, 0.16 above C, forms another
C24_Witness ==
  /\ IsDocument
  /\ pdfData.Pages = << << [x |-> 20, y |-> 1000, T |-> <<"B">>],
                           [x |-> 50, y |-> 1008, T |-> <<"C">>],
                           [x |-> 50, y |-> 1024, T |-> <<"E">>] >> >>
  /\ Len(resolved.value[1].lines) = 2
  /\ TextsOf(resolved.value[1].lines[1]) = << <<"E">> >>
  /\ TextsOf(resolved.value[1].lines[2]) = << <<"B">>, <<"C">> >>

\* the page numbers extractPdfText wrote into its page headers, in order
RECURSIVE HeaderNumbers(_)
HeaderNumbers(s) ==
  IF Len(s) < 2 THEN <<>>
  ELSE IF Head(s) = "--- Page "
       THEN <<s[2]>> \o HeaderNumbers(Tail(Tail(s)))
       ELSE HeaderNumbers(Tail(s))

\* C25: a page with zero fragments yields a page with zero lines and no
\* error; the pages before and after it are reconstructed as they are
\* without it, and the document has one page entry per input page, in input
\* order.
C25_EmptyPageHasNoLines ==
  /\ IsDocument =>
       /\ Len(resolved.value) = Len(pdfData.Pages)
       /\ \A p \in DOMAIN pdfData.Pages :
            /\ resolved.value[p].pageNumber = p
            /\ pdfData.Pages[p] = <<>> => resolved.value[p].lines = <<>>
            /\ IsPermutation(Flat(resolved.value[p].lines), p)
  /\ (IsPlainText /\ pdfData.Pages # <<>>) =>
       /\ HeaderNumbers(resolved.value)
            = [p \in 1..Len(pdfData.Pages) |-> PageNumber(p)]
       /\ \A p \in DOMAIN pdfData.Pages : \A k \in DOMAIN pdfData.Pages[p] :
            LET t == decodeURIComponent(pdfData.Pages[p][k].T)
            IN t[1] \notin Whitespace => \E i \in DOMAIN resolved.value : resolved.value[i] = t[1]

\* a document of three pages, the second without fragments, was
\* reconstructed: three page entries, the second with no lines, the first
\* and the third with their line
C25_Witness ==
  /\ IsDocument
  /\ Len(pdfData.Pages) = 3
  /\ pdfData.Pages[1] # <<>> /\ pdfData.Pages[2] = <<>> /\ pdfData.Pages[3] # <<>>
  /\ Len(resolved.value) = 3
  /\ resolved.value[2].lines = <<>>
  /\ Len(resolved.value[1].lines) = 1 /\ Len(resolved.value[3].lines) = 1

\* C26: in the sequence the sort hands to grouping, two fragments whose y
\* values are within the tolerance of each other stand in ascending x order,
\* and two fragments with the same x and y stand in their input order.
C26_TieBreak ==
  IsDocument =>
    \A p \in DOMAIN resolved.value :
      \A i, j \in DOMAIN Sorted(p) :
        i < j =>
          LET a == Sorted(p)[i]
              b == Sorted(p)[j]
          IN /\ Abs(a.y - b.y) <= Tolerance => a.x <= b.x
             /\ (a.x = b.x /\ a.y = b.y) => a.run < b.run

\* the lines of a page, each fragment by its text and position
Positioned(lines) ==
  [i \in DOMAIN lines |->
     [k \in DOMAIN lines[i] |->
        [text |-> lines[i][k].text, x |-> lines[i][k].x, y |-> lines[i][k].y]]]

RECURSIVE JoinBySpace(_)
JoinBySpace(line) ==
  IF line = <<>> THEN <<>>
  ELSE IF Len(line) = 1 THEN line[1].text
       ELSE line[1].text \o <<" ">> \o JoinBySpace(Tail(line))

\* the text lines of reconstructed lines: every line, or every line that
\* holds more than white space, trimmed
RECURSIVE TextOfLines(_, _)
TextOfLines(lines, trimmed) ==
  IF lines = <<>> THEN <<>>
  ELSE (IF ~trimmed THEN JoinBySpace(Head(lines)) \o <<"\n">>
        ELSE IF Visible(Head(lines)) THEN trim(JoinBySpace(Head(lines))) \o <<"\n">>
        ELSE <<>>)
       \o TextOfLines(Tail(lines), trimmed)

\* the headers and text lines of the first n pages
RECURSIVE TextOfPages(_, _)
TextOfPages(n, trimmed) ==
  IF n = 0 THEN <<>>
  ELSE TextOfPages(n - 1, trimmed) \o PageHeader(n) \o TextOfLines(Grouped(n), trimmed)

\* C28 as stated: under its header, the plain text of a page is its
\* reconstructed lines, one text line each, the fragments of a line joined
\* by a single space, no fragment text dropped or altered.
C28_TextIsLinesJoined ==
  (IsPlainText /\ pdfData.Pages # <<>>) =>
    resolved.value = TextOfPages(Len(pdfData.Pages), FALSE)

\* C28, amended: under its header, the plain text of a page holds one text
\* line for every reconstructed line that holds more than white space: the
\* texts of its fragments joined by a single space, without the white space
\* at its two ends; a line of white space contributes nothing.
C28_TextIsVisibleLinesTrimmed ==
  (IsPlainText /\ pdfData.Pages # <<>>) =>
    resolved.value = TextOfPages(Len(pdfData.Pages), TRUE)

\* the page F(x=50,y=10.00), B(x=20,y=10.00), E(x=50,y=10.24) was written
\* as the text lines "E" and "B F"
C28_Witness ==
  /\ IsPlainText
  /\ pdfData.Pages = << << [x |-> 50, y |-> 1000, T |-> <<"F">>],
                           [x |-> 20, y |-> 1000, T |-> <<"B">>],
                           [x |-> 50, y |-> 1024, T |-> <<"E">>] >> >>
  /\ resolved.value = PageHeader(1) \o <<"E", "\n", "B", " ", "F", "\n">>

\* -------------------------------------------- properties: parse error, client
\* the parser signalled pdfParser_dataError to job j's extractPdfText
ParseError(j) == text[j] = "Unable to extract text from this PDF file."

\* C29: when the parser signals a parse error during the local tier of a
\* pdf-to-word job, the local tier fails and the chain goes on to the
\* diagnostic report; the local tier is never the successful tier for an
\* input that could not be parsed.
C29_ParseErrorFailsLocalTier ==
  \A j \in Jobs :
    (Http(j, "pdf-to-word") /\ Done(j) /\ ParseError(j)) =>
      /\ Has(j, Local, "fail")
      /\ ~Has(j, Local, "ok")
      /\ Has(j, Diag, "ok") \/ Has(j, Diag, "fail")
      /\ ~IsLocalResult(j)

\* what holds of every call: at most `retries` requests are sent; after the
\* failed attempt i the timer is set to min(1000 * 2^i, 10000) ms, and only
\* when another attempt follows; a value is returned only for an OK
\* response, the first one; the error is thrown after `retries` failed
\* attempts
RetryDiscipline ==
  /\ Len(request.sent) <= request.retries
  /\ \A k \in DOMAIN request.sent : request.sent[k] = k - 1
  /\ \A k \in DOMAIN request.timers :
       /\ k < request.retries
       /\ request.timers[k] = IF 1000 * (2 ^ (k - 1)) < 10000
                              THEN 1000 * (2 ^ (k - 1)) ELSE 10000
  /\ Len(request.timers) = IF request.pc = "sleep" THEN Len(request.sent)
                           ELSE IF request.sent = <<>> THEN 0
                           ELSE Len(request.sent) - 1
  /\ request.pc = "thrown" =>
       /\ Len(request.sent) = request.retries
       /\ request.result[1] = "error"
  /\ (request.pc = "returned" /\ request.sent # <<>>) =>
       request.result = <<"response", "200">>

C31_ErrorStatusRecovers ==
  (page.backendStatus = "error" /\ page.backend = "up")
    ~> (page.backendStatus = "connected")

\* the toasts of handleSubmit's two early returns
Refusals ==
  {"Please select a file first", "Backend is not connected. Please wait for connection."}

\* C32: a conversion request is sent only with a file selected and the status
\* 'connected'; a refused handleSubmit sends nothing and leaves loading and
\* result alone; loading is true exactly while the request is under way and
\* goes back to false only when the request has ended (returned or thrown).
C32_SubmitGuardedLoadingBracketsRequest ==
  /\ [](page.loading <=> request.pc # "idle")
  /\ [][/\ (request.pc = "idle" /\ request'.pc # "idle") =>
             /\ page.file # NullFile
             /\ page.backendStatus = "connected"
             /\ request'.url = "/api/convert"
             /\ page'.loading
        /\ (page'.toast # page.toast /\ page'.toast \in Refusals) =>
             /\ page.file = NullFile \/ page.backendStatus # "connected"
             /\ page'.loading = page.loading
             /\ page'.result = page.result
             /\ request' = request
        /\ (page.loading /\ ~page'.loading) =>
             /\ request.pc \in {"returned", "thrown"}
             /\ page'.result # <<>>]_vars

\* a submission was refused for the status, and a later one, sent after the
\* status had become 'connected', failed after its three attempts
C32_Witness ==
  /\ page.file # NullFile
  /\ page.backendStatus = "connected"
  /\ ~page.loading
  /\ request.pc = "idle"
  /\ page.result = <<"error", "Cannot reach server. Please check if the backend is running.">>

\* ------------------------------------------- properties: request, no file
WithoutFile(j) == job[j].mode = "http, no file"

\* C33: a request without a file is answered 400 with success false in the
\* step that receives it; processFile is not called for it (no timestamp, no
\* settings, no tier, no cloud call), and neither outputs/ nor uploads/
\* changes.
C33_NoFileAnswered400 ==
  /\ [](\A j \in Jobs : WithoutFile(j) =>
          /\ pc[j] = "done"
          /\ Len(outcome[j]) = 1
          /\ outcome[j][1].status = 400
          /\ ~outcome[j][1].ok
          /\ outcome[j][1].path = NoPath
          /\ tierLog[j] = <<>>
          /\ calls[j] = 0
          /\ job[j].settings = NoSettings
          /\ job[j].input = NoPath)
  /\ [][\A j \in Jobs : (~WithoutFile(j) /\ WithoutFile(j)') =>
          /\ outputs' = outputs
          /\ uploads' = uploads]_vars

\* a request without a file was answered while the file of another request
\* was in uploads/ and, later, its result in outputs/
C33_Witness ==
  \E j, k \in Jobs :
    /\ WithoutFile(j)
    /\ pc[j] = "done"
    /\ job[k].mode = "http"
    /\ DOMAIN outputs # {}

\* ------------------------------------ properties: lines and implementations
\* C34: any two fragments of a reconstructed line have y values that differ
\* by at most the tolerance.
C34_LineWithinOneBand ==
  IsDocument =>
    \A p \in DOMAIN resolved.value :
      \A i \in DOMAIN resolved.value[p].lines :
        LET line == resolved.value[p].lines[i]
        IN \A a, b \in DOMAIN line : Abs(line[a].y - line[b].y) <= Tolerance

\* C34, amended: neighbouring fragments of a line have y values that differ
\* by at most the tolerance, and the last fragment of a line and the first of
\* the next differ by more than it.
C34_NeighboursWithinTolerance ==
  IsDocument =>
    \A p \in DOMAIN resolved.value :
      LET lines == resolved.value[p].lines
      IN /\ \A i \in DOMAIN lines : \A a \in 1..(Len(lines[i]) - 1) :
              Abs(lines[i][a].y - lines[i][a + 1].y) <= Tolerance
         /\ \A i \in 1..(Len(lines) - 1) :
              Abs(lines[i][Len(lines[i])].y - lines[i + 1][1].y) > Tolerance

\* four fragments whose y drifts by 0.08 from one to the next form one line
\* that spans 0.24
C34_Witness ==
  /\ IsDocument
  /\ \E p \in DOMAIN resolved.value : \E i \in DOMAIN resolved.value[p].lines :
       LET line == resolved.value[p].lines[i]
       IN /\ Len(line) = 4
          /\ \A a \in 1..3 : line[a].y - line[a + 1].y = 8
          /\ line[1].y - line[4].y = 24

\* what the two functions make of the parsed file: the one that ran, as it
\* resolved; the other, applied to the same pages
PlainOf ==
  IF resolved.by = "extractPdfText" THEN resolved.value ELSE resolvedText(pdfData.Pages)

DocumentOf ==
  IF resolved.by = "extractPdfTextWithExactFormatting" THEN resolved.value
  ELSE fullDocument(pdfData.Pages)

\* a text cut at its line ends
RECURSIVE SplitLines(_, _)
SplitLines(s, current) ==
  IF s = <<>> THEN (IF current = <<>> THEN <<>> ELSE <<current>>)
  ELSE IF Head(s) = "\n" THEN <<current>> \o SplitLines(Tail(s), <<>>)
  ELSE SplitLines(Tail(s), Append(current, Head(s)))

\* the text lines under the header of page p: every header follows an empty
\* line
TextLinesOfPage(p) ==
  LET all == SplitLines(PlainOf, <<>>)
      header(n) == CHOOSE i \in DOMAIN all : all[i] = <<"--- Page ", PageNumber(n), " ---">>
  IN SubSeq(all, header(p) + 1,
            IF p < Len(pdfData.Pages) THEN header(p + 1) - 2 ELSE Len(all))

\* a function has resolved with what it made of a file that has pages
Reconstructed ==
  /\ resolved.type \in {"array", "string"}
  /\ resolved.by = "extractPdfText" => resolved.value # UnableToExtract
  /\ pdfData.Pages # <<>>

\* C35: for every page, the text lines of extractPdfText are, one-to-one and
\* in order, the lines of extractPdfTextWithExactFormatting, each text line
\* the texts of that line's fragments in order.
C35_ImplementationsAgree ==
  Reconstructed =>
    \A p \in DOMAIN DocumentOf :
      LET lines == DocumentOf[p].lines
      IN TextLinesOfPage(p) = [i \in DOMAIN lines |-> JoinBySpace(lines[i])]

\* C35, amended: for every page, the text lines of extractPdfText are,
\* one-to-one and in order, those lines of extractPdfTextWithExactFormatting
\* that hold more than white space, each text line the texts of that line's
\* fragments in order, joined by single spaces, without the white space at
\* its two ends.
C35_ImplementationsAgreeOnVisibleLines ==
  Reconstructed =>
    \A p \in DOMAIN DocumentOf :
      LET lines == SelectSeq(DocumentOf[p].lines, Visible)
      IN TextLinesOfPage(p) = [i \in DOMAIN lines |-> trim(JoinBySpace(lines[i]))]

\* a page of three lines, the first one a single blank: the structured
\* reconstruction has the three lines, the plain text the two visible ones
C35_Witness ==
  /\ Reconstructed
  /\ Len(pdfData.Pages) = 1
  /\ Len(DocumentOf[1].lines) = 3
  /\ ~Visible(DocumentOf[1].lines[1])
  /\ Len(TextLinesOfPage(1)) = 2

\* --------------------------------------- properties: report, files, status
\* C36: in a pdf-to-word job the diagnostic report is attempted at most once,
\* and a failed attempt is the last tier event of the job, which is then done
\* with an error.
C36_ReportAttemptedOnce ==
  \A j \in Jobs :
    Http(j, "pdf-to-word") =>
      /\ Count(j, Diag, "start") <= 1
      /\ \A i \in DOMAIN tierLog[j] :
           tierLog[j][i] = Ev(Diag, "fail") =>
             /\ i = Len(tierLog[j])
             /\ Done(j)
             /\ ~Result(j).ok

\* the files in outputs/ that request j wrote
FilesOf(j) == {p \in DOMAIN outputs : outputs[p].by = j}

\* C37: when a request has been answered, outputs/ holds, of the files the
\* request wrote, only the one its response names: none after an error, and
\* no file of an earlier failed tier after a success.
C37_OnlyTheNamedArtifact ==
  \A j \in Jobs :
    (job[j].mode = "http" /\ Done(j)) =>
      IF Result(j).ok THEN FilesOf(j) \subseteq {Result(j).path}
      ELSE FilesOf(j) = {}

\* C38: the status of an output name is 'completed' only when the request
\* that writes that file has been answered with a result; it is not
\* 'completed' while the request is still running or after it has failed.
C38_CompletedOnlyAfterSuccess ==
  \A j \in Jobs : \A name \in OutputPaths(j) :
    (job[j].mode = "http" /\ name \in FilesOf(j) /\ status(name) = "completed") =>
      (Done(j) /\ Result(j).ok)

\* -------------------------------------------------- properties: result panel
\* C39: the 'Conversion Successful!' block with its download button is shown
\* only for a stored result without an error.
C39_SuccessOnlyWithoutError ==
  ShowsSuccess(page) => ~ShowsFailure(page)

====
